---- MODULE Spec2Model ----
(***************************************************************************)
(* A model of the EDCS migrant pipeline (ThomasLeibundgut/ARS22):          *)
(*   EDCS_S_Extract.py          get_cleantext and its helpers              *)
(*   EDCS_Find_Migrants_quick.py  assign_gender, get_legal_status,         *)
(*                              add_stem, find_migrants' stem blocklist,   *)
(*                              add_details and its helpers                *)
(* Strings are sequences of one-character strings; indices in the Python   *)
(* helpers below are 0-based as in the source, and a negative index wraps  *)
(* round to the end of the string as Python's does.                        *)
(***************************************************************************)
EXTENDS Integers, Sequences, FiniteSets, TLC

VARIABLES pc,          \* which step of which stage has run
          raw,         \* TextNormalizer: the raw transcription text
          clean,       \* get_cleantext(raw)
          reclean,     \* get_cleantext(clean)
          row,         \* DemographicClassifier: one row of the EDCS dataframe
          gender,      \* row['gender'], set by add_metadata
          legal_status, \* row['legal_status'], set by add_status
          placenames,  \* GazetteerStemmer: row['placenames'] of a Pleiades row
          stem_list,   \* the stems add_stem collected, in order
          stem,        \* row['stem']: what add_stem returned
          stems,       \* the stems find_migrants searches for in this row
          candidates,  \* GeoResolver: the migrants dataframe add_details is given
          onlymigrants, \* the dataframe add_details saves after remove_nonmigrants
          migrants,    \* the migrants dataframe add_details returns
          edcs,        \* the EDCS dataframe: one row per inscription
          pleiades,    \* the Pleiades dataframe: one row per gazetteer name
          raw_migrants, \* the dataframe find_migrants saves before drop_duplicates
          master,      \* the dataframe quick_master returns
          pir,         \* the 'annotated' column of the PIR export get_name_set reads
          timePeriods, \* get_place_names: elem['timePeriods'] of a Pleiades row
          elem,        \* get_place_names: the name no_tags is working on
          place_names, \* get_place_names: the set place_names of the row
          scraped,     \* get_insc_dict: insc, the elements of one scraped inscription
          inscription  \* get_insc_dict: the dictionary made of them

vars == <<pc, raw, clean, reclean, row, gender, legal_status,
          placenames, stem_list, stem, stems, candidates, onlymigrants, migrants,
          edcs, pleiades, raw_migrants, master,
          pir, timePeriods, elem, place_names, scraped, inscription>>

textVars == <<raw, clean, reclean>>
classVars == <<row, gender, legal_status, pir>>
stemVars == <<placenames, stem_list, stem, stems>>
geoVars == <<candidates, onlymigrants, migrants>>
pipeVars == <<edcs, pleiades, raw_migrants, master>>
placeVars == <<timePeriods, elem, place_names>>
decodeVars == <<scraped, inscription>>

\* the variables of a stage that is not running
TextIdle == raw = <<>> /\ clean = <<>> /\ reclean = <<>>
ClassIdle == row = <<>> /\ gender = "unset" /\ legal_status = "unset" /\ pir = <<>>
StemIdle == placenames = <<>> /\ stem_list = <<>> /\ stem = <<>> /\ stems = <<>>
GeoIdle == candidates = <<>> /\ onlymigrants = <<>> /\ migrants = <<>>
PipeIdle == edcs = <<>> /\ pleiades = <<>> /\ raw_migrants = <<>> /\ master = <<>>
PlaceIdle == timePeriods = <<>> /\ elem = <<>> /\ place_names = {}
DecodeIdle == scraped = <<>> /\ inscription = <<>>

----------------------------------------------------------------------------
(* Python helpers *)

Min(S) == CHOOSE x \in S : \A y \in S : x <= y

\* text[i] for a 0-based i; a negative i counts from the end
PyAt(text, i) == IF i < 0 THEN text[Len(text) + i + 1] ELSE text[i + 1]

\* [text[k] for k in range(a, b)], for 0 <= a
PyRange(text, a, b) == [k \in 1..(IF b > a THEN b - a ELSE 0) |-> text[a + k]]

\* text.find(c, start)
Find(text, c, start) ==
    LET S == {i \in start..(Len(text) - 1) : text[i + 1] = c}
    IN IF S = {} THEN -1 ELSE Min(S)

LowerCase ==
    {"a", "b", "c", "d", "e", "f", "g", "h", "i", "j", "k", "l", "m", "n",
     "o", "p", "q", "r", "s", "t", "u", "v", "w", "x", "y", "z"}
UpperCase ==
    {"A", "B", "C", "D", "E", "F", "G", "H", "I", "J", "K", "L", "M", "N",
     "O", "P", "Q", "R", "S", "T", "U", "V", "W", "X", "Y", "Z"}
Letters == LowerCase \cup UpperCase
\* a letter that is not ASCII: the lower-case Greek letter, one character
Greek == {"rho"}
Digits == {"3"}
Spaces == {" "}

isalpha(c) == c \in Letters \cup Greek
isspace(c) == c \in Spaces
isnumeric(c) == c \in Digits

ToLower ==
    ("A" :> "a") @@ ("B" :> "b") @@ ("C" :> "c") @@ ("D" :> "d") @@ ("E"
    :> "e") @@ ("F" :> "f") @@ ("G" :> "g") @@ ("H" :> "h") @@ ("I" :>
    "i") @@ ("J" :> "j") @@ ("K" :> "k") @@ ("L" :> "l") @@ ("M" :> "m")
    @@ ("N" :> "n") @@ ("O" :> "o") @@ ("P" :> "p") @@ ("Q" :> "q") @@
    ("R" :> "r") @@ ("S" :> "s") @@ ("T" :> "t") @@ ("U" :> "u") @@ ("V"
    :> "v") @@ ("W" :> "w") @@ ("X" :> "x") @@ ("Y" :> "y") @@ ("Z" :>
    "z")

\* str.lower() of one character
lower(c) == IF c \in UpperCase THEN ToLower[c] ELSE c

LowerAll(s) == [k \in 1..Len(s) |-> lower(s[k])]

\* s.split(): the maximal runs of non-whitespace characters
RECURSIVE SplitFrom(_, _, _)
SplitFrom(s, k, word) ==
    IF k > Len(s)
    THEN IF word = <<>> THEN <<>> ELSE <<word>>
    ELSE IF isspace(s[k])
         THEN (IF word = <<>> THEN <<>> ELSE <<word>>) \o SplitFrom(s, k + 1, <<>>)
         ELSE SplitFrom(s, k + 1, Append(word, s[k]))

split(s) == SplitFrom(s, 1, <<>>)

\* sep.join(words)
RECURSIVE join(_, _)
join(sep, words) ==
    IF words = <<>> THEN <<>>
    ELSE IF Len(words) = 1 THEN words[1]
    ELSE words[1] \o sep \o join(sep, Tail(words))

\* s in t: s occurs in t as a run of consecutive characters
Contains(t, s) ==
    \E k \in 0..(Len(t) - Len(s)) : \A j \in 1..Len(s) : t[k + j] = s[j]

\* the pieces of an input text put together
RECURSIVE Concat(_)
Concat(ps) == IF ps = <<>> THEN <<>> ELSE Head(ps) \o Concat(Tail(ps))

----------------------------------------------------------------------------
(* EDCS_S_Extract.py *)

\* text[i].isnumeric is written without the call in the second test: the
\* bound method is always truthy
isnumeric_uncalled(c) == TRUE

missing(text, i) ==
    /\ i < Len(text) - 2
    /\ \/ /\ PyAt(text, i) = "["
          /\ isnumeric(PyAt(text, i + 1))
          /\ PyAt(text, i + 2) = "]"
       \/ /\ PyAt(text, i - 1) = "["
          /\ isnumeric_uncalled(PyAt(text, i))
          /\ PyAt(text, i + 1) = "]"
       \/ /\ PyAt(text, i - 2) = "["
          /\ isnumeric(PyAt(text, i - 1))
          /\ PyAt(text, i) = "]"

\* the while loop of correct_text: one (opens, equals, closes) per '<'
RECURSIVE correct_spans(_, _, _)
correct_spans(text, opens, acc) ==
    IF opens /= -1 /\ opens + 1 < Len(text)
    THEN correct_spans(text, Find(text, "<", opens + 1),
                       Append(acc, [opens  |-> opens,
                                    equals |-> Find(text, "=", opens),
                                    closes |-> Find(text, ">", opens)]))
    ELSE acc

\* the letters correct_text keeps of one span: those between '<' and '='
corrected_letters_after_equals(text, span) ==
    LowerAll(PyRange(text, span.equals + 1, span.closes))

corrected_letters(text, span) ==
    LowerAll(PyRange(text, span.opens + 1, span.equals))

\* the for loop of correct_text over the collected spans
RECURSIVE correct_emit(_, _, _, _, _)
correct_emit(text, spans, i, closing, corrected) ==
    IF i > Len(spans)
    THEN corrected \o PyRange(text, closing, Len(text))
    ELSE correct_emit(text, spans, i + 1, spans[i].closes + 1,
                      corrected \o PyRange(text, closing, spans[i].opens)
                                \o corrected_letters(text, spans[i]))

correct_text(text) ==
    correct_emit(text, correct_spans(text, Find(text, "<", 0), <<>>), 1, 0, <<>>)

\* the while loop of remove_superficial_letters: one (opens, closes) per '{'
RECURSIVE superficial_spans(_, _, _)
superficial_spans(text, opens, acc) ==
    IF opens /= -1 /\ opens + 1 < Len(text)
    THEN superficial_spans(text, Find(text, "{", opens + 1),
                           Append(acc, [opens  |-> opens,
                                        closes |-> Find(text, "}", opens)]))
    ELSE acc

\* the for loop of remove_superficial_letters going on behind the opening
\* brace instead of behind the closing one
RECURSIVE superficial_emit_behind_opening(_, _, _, _, _)
superficial_emit_behind_opening(text, spans, i, closing, result) ==
    IF i > Len(spans)
    THEN result \o PyRange(text, closing, Len(text))
    ELSE superficial_emit_behind_opening(text, spans, i + 1, spans[i].opens + 1,
                          result \o PyRange(text, closing, spans[i].opens))

RECURSIVE superficial_emit(_, _, _, _, _)
superficial_emit(text, spans, i, closing, result) ==
    IF i > Len(spans)
    THEN result \o PyRange(text, closing, Len(text))
    ELSE superficial_emit(text, spans, i + 1, spans[i].closes + 1,
                          result \o PyRange(text, closing, spans[i].opens))

remove_superficial_letters(text) ==
    superficial_emit(text, superficial_spans(text, Find(text, "{", 0), <<>>),
                     1, 0, <<>>)

\* the character filter of get_cleantext
keep_char(text, i) ==
    isspace(PyAt(text, i)) \/ isalpha(PyAt(text, i)) \/ missing(text, i)

RECURSIVE strip_inscriptionese(_, _)
strip_inscriptionese(text, i) ==
    IF i >= Len(text) THEN <<>>
    ELSE (IF keep_char(text, i) THEN <<PyAt(text, i)>> ELSE <<>>)
         \o strip_inscriptionese(text, i + 1)

get_cleantext(text) ==
    LET equals == Find(text, "=", 0)
        curly  == Find(text, "{", 0)
        t1 == IF equals /= -1 THEN correct_text(text) ELSE text
        t2 == IF curly /= -1 THEN remove_superficial_letters(t1) ELSE t1
    IN join(<<" ">>, split(strip_inscriptionese(t2, 0)))

----------------------------------------------------------------------------
(* EDCS_Find_Migrants_quick.py: DemographicClassifier *)

\* values that are not strings: float NaN (a missing text) and None
NaN == <<"nan">>
NoneStr == <<"None">>
isinstance_str(x) == x \notin {NaN, NoneStr}

\* the value get_servx returns for a cleantext that is not a string
None == -2

\* np.nan in a numeric column; every distance is >= 0
nan == -1

WordChars == Letters \cup Digits \cup {"_"} \cup Greek

\* the maximal runs of \w characters of s: what lies between two \b
RECURSIVE word_runs(_, _, _)
word_runs(s, k, run) ==
    IF k > Len(s)
    THEN IF run = <<>> THEN {} ELSE {run}
    ELSE IF s[k] \in WordChars
         THEN word_runs(s, k + 1, Append(run, s[k]))
         ELSE (IF run = <<>> THEN {} ELSE {run}) \cup word_runs(s, k + 1, <<>>)

\* assign_gender with the two tests in the other order
assign_gender_female_first(r) ==
    IF r.gender_keywords = 1 \/ r.gender_filix = 1
       \/ r.gender_servx = 1 \/ r.gender_of_1st_Word = 1
    THEN "f"
    ELSE IF r.gender_keywords = 0 \/ r.gender_filix = 0
            \/ r.gender_servx = 0 \/ r.gender_of_1st_Word = 0
         THEN "m"
         ELSE "None"

assign_gender(r) ==
    IF r.gender_keywords = 0 \/ r.gender_filix = 0
       \/ r.gender_servx = 0 \/ r.gender_of_1st_Word = 0
    THEN "m"
    ELSE IF r.gender_keywords = 1 \/ r.gender_filix = 1
            \/ r.gender_servx = 1 \/ r.gender_of_1st_Word = 1
         THEN "f"
         ELSE "None"

serv == <<"s", "e", "r", "v">>
libert == <<"l", "i", "b", "e", "r", "t">>
fili == <<"f", "i", "l", "i">>

\* the three word lists of get_legal_status, each word written stem \o ending
slave ==
    {serv \o e : e \in
        {<<"u", "s">>, <<"i">>, <<"o">>, <<"u", "m">>, <<"o", "m">>,
         <<"o", "r", "u", "m">>, <<"i", "s">>, <<"o", "s">>, <<"a">>,
         <<"a", "e">>, <<"a", "i">>, <<"a", "m">>, <<"a", "r", "u", "m">>,
         <<"a", "s">>, <<"a", "b", "u", "s">>}}

freed ==
    {libert \o e : e \in
        {<<"u", "s">>, <<"i">>, <<"o">>, <<"u", "m">>, <<"o", "m">>, <<"e">>,
         <<"o", "r", "u", "m">>, <<"i", "s">>, <<"o", "s">>, <<"a">>,
         <<"a", "e">>, <<"a", "i">>, <<"a", "m">>, <<"a", "d">>,
         <<"a", "r", "u", "m">>, <<"a", "b", "u", "s">>}}

free ==
    {fili \o e : e \in
        {<<"a">>, <<"a", "e">>, <<"a", "i">>, <<"a", "m">>, <<"a", "d">>,
         <<"a", "r", "u", "m">>, <<"a", "b", "u", "s">>, <<"a", "s">>,
         <<"u", "s">>, <<>>, <<"i">>, <<"o">>, <<"u", "m">>, <<"o", "m">>,
         <<"o", "r", "u", "m">>, <<"o", "s">>}}

\* one test of the loop body of get_legal_status: the status a word gives
word_status(word) ==
    IF LowerAll(word) \in slave THEN 0
    ELSE IF LowerAll(word) \in freed THEN 1
    ELSE IF LowerAll(word) \in free THEN 2
    ELSE -1

\* the loop of get_legal_status: the first word with a status decides
RECURSIVE scan_status(_, _)
scan_status(words, k) ==
    IF k > Len(words) THEN -1
    ELSE IF word_status(words[k]) /= -1 THEN word_status(words[k])
    ELSE scan_status(words, k + 1)

\* get_legal_status testing the whole text for each list in turn
get_legal_status_by_list(r) ==
    IF isinstance_str(r.cleantext)
    THEN LET words == split(r.cleantext)
             has(list) == \E k \in 1..Len(words) : LowerAll(words[k]) \in list
         IN IF has(slave) THEN 0
            ELSE IF has(freed) THEN 1
            ELSE IF has(free) THEN 2
            ELSE -1
    ELSE -1

get_legal_status(r) ==
    IF isinstance_str(r.cleantext)
    THEN scan_status(split(r.cleantext), 1)
    ELSE -1

----------------------------------------------------------------------------
(* EDCS_Find_Migrants_quick.py: GazetteerStemmer *)

Max(S) == CHOOSE x \in S : \A y \in S : x >= y

\* s[:n]; a negative n counts from the end
PySliceTo(s, n) ==
    IF n >= 0 THEN SubSeq(s, 1, IF n < Len(s) THEN n ELSE Len(s))
    ELSE SubSeq(s, 1, IF Len(s) + n > 0 THEN Len(s) + n ELSE 0)

\* s.strip()
RECURSIVE strip(_)
strip(s) ==
    IF s = <<>> THEN s
    ELSE IF isspace(s[1]) THEN strip(Tail(s))
    ELSE IF isspace(s[Len(s)]) THEN strip(SubSeq(s, 1, Len(s) - 1))
    ELSE s

\* s.split(sep) for a one-character sep: empty parts are kept
RECURSIVE split_on(_, _, _, _)
split_on(s, sep, k, part) ==
    IF k > Len(s) THEN <<part>>
    ELSE IF s[k] = sep THEN <<part>> \o split_on(s, sep, k + 1, <<>>)
    ELSE split_on(s, sep, k + 1, Append(part, s[k]))

\* s.replace(old, ''): the occurrences of old are removed left to right
RECURSIVE remove_all(_, _)
remove_all(s, old) ==
    IF Len(s) < Len(old) THEN s
    ELSE IF SubSeq(s, 1, Len(old)) = old
         THEN remove_all(SubSeq(s, Len(old) + 1, Len(s)), old)
         ELSE <<s[1]>> \o remove_all(Tail(s), old)

vowels == {"a", "e", "i", "o", "u"}

\* the exception a string index out of range raises
IndexError == <<"IndexError">>

\* the index of the first vowel met scanning a word from its end, -1 if none
last_vowel(location) ==
    LET V == {k \in 0..(Len(location) - 1) : PyAt(location, k) \in vowels}
    IN IF V = {} THEN -1 ELSE Max(V)

\* the while loop of add_stem: location[i - 1] wraps round for i = 0 and
\* raises IndexError below -len(location)
RECURSIVE vowel_run(_, _, _)
vowel_run(location, i, acc) ==
    IF i - 1 < -Len(location)
    THEN [stem_list |-> acc, raised |-> TRUE]
    ELSE IF PyAt(location, i - 1) \in vowels
         THEN vowel_run(location, i - 1, Append(acc, PySliceTo(location, i - 1)))
         ELSE [stem_list |-> acc, raised |-> FALSE]

\* the body of add_stem's loop over the words
word_stems(location) ==
    LET i == last_vowel(location)
    IN IF i = -1 \/ i <= 2
       THEN [stem_list |-> <<>>, raised |-> FALSE]
       ELSE vowel_run(location, i, <<PySliceTo(location, i)>>)

RECURSIVE collect_stems(_, _, _)
collect_stems(locations, k, acc) ==
    IF k > Len(locations) THEN [stem_list |-> acc, raised |-> FALSE]
    ELSE LET w == word_stems(locations[k])
         IN IF w.raised
            THEN [stem_list |-> acc \o w.stem_list, raised |-> TRUE]
            ELSE collect_stems(locations, k + 1, acc \o w.stem_list)

\* stem_list when add_stem returns or raises
add_stem_list(names) ==
    IF names = NoneStr THEN [stem_list |-> <<>>, raised |-> FALSE]
    ELSE collect_stems(split(names), 1, <<>>)

add_stem(names) ==
    IF names = NoneStr THEN NoneStr
    ELSE IF add_stem_list(names).raised THEN IndexError
    ELSE join(<<",", " ">>, add_stem_list(names).stem_list)

Castr == <<"C", "a", "s", "t", "r">>
Misen == <<"M", "i", "s", "e", "n">>
Fret == <<"F", "r", "e", "t">>

\* find_migrants: pleiades['stem'].str.replace(...), three times
blocklisted(s) ==
    IF isinstance_str(s)
    THEN remove_all(remove_all(remove_all(s, Castr), Misen), Fret)
    ELSE s

\* find_migrants: the stems of one row, none when row.stem is not a string
find_migrants_stems(s) ==
    IF isinstance_str(blocklisted(s))
    THEN LET parts == split_on(blocklisted(s), ",", 1, <<>>)
         IN [k \in 1..Len(parts) |-> strip(parts[k])]
    ELSE <<>>

----------------------------------------------------------------------------
(* EDCS_Find_Migrants_quick.py: no_tags, no_brackets and get_place_names *)

\* s.replace(old, new): the occurrences of old are replaced left to right;
\* an empty old is found before every character and at the end
RECURSIVE replace(_, _, _)
replace(s, old, new) ==
    IF old = <<>>
    THEN IF s = <<>> THEN new ELSE new \o <<s[1]>> \o replace(Tail(s), old, new)
    ELSE IF Len(s) < Len(old) THEN s
    ELSE IF SubSeq(s, 1, Len(old)) = old
         THEN new \o replace(SubSeq(s, Len(old) + 1, Len(s)), old, new)
         ELSE <<s[1]>> \o replace(Tail(s), old, new)

\* the body of the while loop of no_tags: closing is the first ">" of the
\* whole string, and elem[opening:closing + 1] is empty when it lies before
\* opening or is -1
no_tags_step(e) ==
    LET opening == Find(e, "<", 0)
        closing == Find(e, ">", 0)
        remove == PyRange(e, opening, closing + 1)
    IN replace(e, remove, <<>>)

\* what no_tags gives when its loop never ends
Forever == <<"forever">>

\* no_tags: an iteration that leaves elem as it is is repeated for ever
RECURSIVE no_tags(_)
no_tags(e) ==
    IF Find(e, "<", 0) = -1 THEN e
    ELSE IF no_tags_step(e) = e THEN Forever
    ELSE no_tags(no_tags_step(e))

omission == <<"(", ".", ".", ".", ")">>

\* the first while loop of no_brackets: elem and variants when it ends
RECURSIVE remove_comments(_, _, _)
remove_comments(e, opening, variants) ==
    IF opening = -1 THEN [elem |-> e, variants |-> variants]
    ELSE LET closing == Find(e, ")", opening)
             remove == PyRange(e, opening, closing + 1)
             removed == replace(e, remove, <<>>)
         IN IF remove = omission \/ (opening > 0 /\ isspace(PyAt(e, opening - 1)))
            THEN remove_comments(removed, Find(removed, "(", opening + 1), variants)
            ELSE remove_comments(e, Find(e, "(", opening + 1), TRUE)

\* the inner while loop of no_brackets: for each "(" of a word, the word
\* without that parenthetical and the word without any parenthesis
RECURSIVE word_variants(_, _)
word_variants(word, opening) ==
    IF opening = -1 THEN <<>>
    ELSE LET closing == Find(word, ")", opening)
             variant == PyRange(word, opening, closing + 1)
             word_without == replace(word, variant, <<>>)
             word_with == replace(replace(word, <<"(">>, <<>>), <<")">>, <<>>)
         IN <<word_without, word_with>>
            \o word_variants(word, Find(word, "(", opening + 1))

\* the for loop of no_brackets over the words
RECURSIVE both_readings(_, _)
both_readings(words, k) ==
    IF k > Len(words) THEN <<>>
    ELSE (IF Find(words[k], "(", 0) = -1
          THEN <<words[k]>>
          ELSE word_variants(words[k], Find(words[k], "(", 0)))
         \o both_readings(words, k + 1)

no_brackets(e) ==
    LET first == remove_comments(e, Find(e, "(", 0), FALSE)
        tidied == replace(replace(first.elem, <<" ", " ">>, <<" ">>),
                          <<" ", ",">>, <<",">>)
    IN IF first.variants
       THEN join(<<" ">>, both_readings(split_on(tidied, " ", 1, <<>>), 1))
       ELSE tidied

ancient == {"H", "R", "L"}

\* get_place_names: iterating over a timePeriods that is NaN raises the
\* TypeError that makes the row relevant
relevant(periods) ==
    \/ ~isinstance_str(periods)
    \/ \E k \in 1..Len(periods) : periods[k] \in ancient

\* loc.replace("  ", " ").strip()
place_name(loc) == strip(replace(loc, <<" ", " ">>, <<" ">>))

\* the names get_place_names adds to place_names: a name without a comma is
\* added whole
split_names(e) ==
    IF Find(e, ",", 0) = -1 THEN {place_name(e)}
    ELSE LET locs == split_on(e, ",", 1, <<>>)
         IN UNION {IF Find(locs[k], "/", 0) = -1
                   THEN {place_name(locs[k])}
                   ELSE LET loks == split_on(locs[k], "/", 1, <<>>)
                        IN {place_name(loks[j]) : j \in 1..Len(loks)} :
                   k \in 1..Len(locs)}

\* place_names of a row whose name no_tags has returned
get_place_names_set(e) ==
    LET unmarked == replace(replace(replace(e, <<"?">>, <<>>), <<"[">>, <<>>),
                            <<"]">>, <<>>)
    IN split_names(no_brackets(unmarked)) \ {Castr, Fret, Misen}

\* ", ".join(place_names): a set is joined in the order it is iterated in,
\* which is any order
joined(names) ==
    LET n == Cardinality(names)
        orders == {f \in [1..n -> names] : \A i, j \in 1..n : f[i] = f[j] => i = j}
    IN {join(<<",", " ">>, f) : f \in orders}

----------------------------------------------------------------------------
(* EDCS_Find_Migrants_quick.py: add_metadata *)

isupper(c) == c \in UpperCase
islower(c) == c \in LowerCase \cup Greek

\* the common names get_name_set starts from
name_set ==
    {<<"A", "u", "l", "u", "s">>, <<"A", "p", "p", "i", "u", "s">>,
     <<"G", "a", "i", "u", "s">>, <<"G", "n", "a", "e", "u", "s">>,
     <<"D", "e", "c", "i", "m", "u", "s">>, <<"L", "u", "c", "i", "u", "s">>,
     <<"M", "a", "r", "c", "u", "s">>, <<"M", "a", "n", "i", "u", "s">>,
     <<"P", "u", "b", "l", "i", "u", "s">>,
     <<"Q", "u", "i", "n", "t", "u", "s">>,
     <<"S", "e", "r", "g", "i", "u", "s">>, <<"S", "e", "x", "t", "u", "s">>,
     <<"S", "p", "u", "r", "i", "u", "s">>, <<"T", "i", "t", "u", "s">>,
     <<"T", "i", "b", "e", "r", "i", "u", "s">>, <<"A", "e", "l", "i", "a">>,
     <<"A", "e", "l", "i", "u", "s">>, <<"A", "u", "r", "e", "l", "i", "a">>,
     <<"A", "u", "r", "e", "l", "i", "u", "s">>,
     <<"C", "l", "a", "u", "d", "i", "a">>,
     <<"C", "l", "a", "u", "d", "i", "u", "s">>,
     <<"F", "l", "a", "v", "i", "a">>, <<"F", "l", "a", "v", "i", "u", "s">>,
     <<"I", "u", "l", "i", "a">>, <<"I", "u", "l", "i", "u", "s">>,
     <<"V", "a", "l", "e", "r", "i", "a">>,
     <<"V", "a", "l", "e", "r", "i", "u", "s">>, <<"C", "a", "i", "u", "s">>,
     <<"C", "n", "a", "e", "u", "s">>}

non_names == {<<"D", "i", "s">>, <<"M", "a", "n", "i", "b", "u", "s">>}

no_words ==
    <<<<".", ".", ".">>, <<".", ".">>, <<"(">>, <<")">>, <<"[">>, <<"]">>,
      <<"-">>, <<"?">>>>

\* for elem in no_words: name = name.replace(elem, ""), in the order the
\* set is written in; the order matters for a name with dots only
RECURSIVE without_no_words(_, _)
without_no_words(name, k) ==
    IF k > Len(no_words) THEN name
    ELSE without_no_words(replace(name, no_words[k], <<>>), k + 1)

\* the parts of one annotated name of the PIR that get_name_set adds
name_parts(annotated) ==
    LET name == replace(without_no_words(no_tags(annotated), 1),
                        <<"v", "e", "l">>, <<" ">>)
        parts == split(name)
    IN {parts[k] : k \in {j \in 1..Len(parts) :
                            /\ PyAt(parts[j], -1) /= "."
                            /\ isupper(parts[j][1])
                            /\ Len(parts[j]) > 3}}

\* get_name_set for the 'annotated' column of the PIR export
get_name_set(export) ==
    name_set \cup UNION {name_parts(export[k]) : k \in 1..Len(export)}

male_names ==
    {<<"A", "g", "r", "i", "p", "p", "a">>, <<"A", "q", "u", "i", "l", "a">>,
     <<"C", "a", "r", "a", "c", "a", "l", "l", "a">>,
     <<"N", "e", "r", "v", "a">>, <<"S", "c", "a", "e", "v", "o", "l", "a">>,
     <<"S", "e", "n", "e", "c", "a">>}

\* word.encode('ascii') does not raise
is_ascii(word) ==
    \A k \in 1..Len(word) :
        word[k] \in Letters \cup Digits \cup {"[", "]", "?", "_", ","}

\* s[-n:]
PySuffix(s, n) == SubSeq(s, IF Len(s) > n THEN Len(s) - n + 1 ELSE 1, Len(s))

\* the test get_name, gender_firstword and get_gender_ensis make of a word
looks_like_name(word) ==
    /\ Len(word) > 2
    /\ isupper(word[1])
    /\ islower(word[2])
    /\ word \notin non_names

\* get_name: the nominative get_name looks up for a word
nominative(word) ==
    IF is_ascii(word) /\ looks_like_name(word)
    THEN IF PySuffix(word, 2) = <<"a", "e">> THEN PySliceTo(word, -1)
         ELSE IF PySuffix(word, 1) \in {<<"i">>, <<"o">>}
              THEN PySliceTo(word, -1) \o <<"u", "s">>
              ELSE word
    ELSE word

\* the loop of get_name: names += word + ", "
RECURSIVE collect_names(_, _, _, _)
collect_names(words, k, names, known) ==
    IF k > Len(words) THEN names
    ELSE collect_names(words, k + 1,
             IF is_ascii(words[k]) /\ nominative(words[k]) \in known
             THEN names \o nominative(words[k]) \o <<",", " ">>
             ELSE names,
             known)

get_name(r, known) ==
    IF isinstance_str(r.cleantext)
    THEN LET names == collect_names(split(r.cleantext), 1, <<>>, known)
         IN IF Contains(names, <<",">>) THEN PySliceTo(names, -2) ELSE names
    ELSE <<>>

\* name.replace(",", "").strip() for each name of row['name'].split()
names_of(r) ==
    LET parts == split(r.name)
    IN [k \in 1..Len(parts) |-> strip(remove_all(parts[k], <<",">>))]

is_male_name(name) ==
    \/ PySuffix(name, 2) = <<"u", "s">>
    \/ name \in male_names
    \/ /\ PySuffix(name, 2) = <<"i", "s">>
       /\ PySuffix(name, 5) /= <<"e", "n", "s", "i", "s">>

is_female_name(name) ==
    /\ ~is_male_name(name)
    /\ PySuffix(name, 1) = <<"a">> \/ PySuffix(name, 2) = <<"o", "e">>
    /\ name \notin male_names

\* the ratios male / female >= 2 and female / male >= 2 are written without
\* the division
get_gender_person(r) ==
    IF r.contains_name = 0 THEN -1
    ELSE LET names == names_of(r)
             male == Cardinality({k \in 1..Len(names) : is_male_name(names[k])})
             female == Cardinality({k \in 1..Len(names) : is_female_name(names[k])})
         IN IF male > 0 /\ female = 0 THEN 0
            ELSE IF male = 0 /\ female > 0 THEN 1
            ELSE IF male = 0 /\ female = 0 THEN -1
            ELSE IF male >= 2 * female THEN 0
            ELSE IF female >= 2 * male THEN 1
            ELSE -1

get_gender_keywords(r) ==
    IF r.m = 1 /\ r.f = 0 THEN 0
    ELSE IF r.f = 1 /\ r.m = 0 THEN 1
    ELSE -1

male_suffix ==
    {<<"u", "s">>, <<"o", "s">>, <<"i", "s">>, <<"e", "r">>, <<"i">>, <<"o">>}

\* the loop of gender_firstword returning at the first name-like word
RECURSIVE firstword_from_first_only(_, _)
firstword_from_first_only(words, k) ==
    IF k > Len(words) THEN -1
    ELSE IF is_ascii(words[k]) /\ looks_like_name(words[k])
         THEN IF \/ words[k] \in male_names
                 \/ PySuffix(words[k], 2) \in male_suffix
                 \/ PySuffix(words[k], 1) \in male_suffix
              THEN 0
              ELSE IF \/ PySuffix(words[k], 2) = <<"a", "e">>
                      \/ PySuffix(words[k], 1) = <<"a">>
                   THEN 1
                   ELSE -1
         ELSE firstword_from_first_only(words, k + 1)

\* the loop of gender_firstword: the first name-like word with a known ending
RECURSIVE firstword_from(_, _)
firstword_from(words, k) ==
    IF k > Len(words) THEN -1
    ELSE IF is_ascii(words[k]) /\ looks_like_name(words[k])
         THEN IF \/ words[k] \in male_names
                 \/ PySuffix(words[k], 2) \in male_suffix
                 \/ PySuffix(words[k], 1) \in male_suffix
              THEN 0
              ELSE IF \/ PySuffix(words[k], 2) = <<"a", "e">>
                      \/ PySuffix(words[k], 1) = <<"a">>
                   THEN 1
                   ELSE firstword_from(words, k + 1)
         ELSE firstword_from(words, k + 1)

gender_firstword(r) ==
    IF isinstance_str(r.cleantext) THEN firstword_from(split(r.cleantext), 1) ELSE -1

\* the endings of the alternatives of locs
locs_ens ==
    {<<"i", "s">>, <<"i">>, <<"e", "m">>, <<"e">>, <<"e", "s">>,
     <<"i", "u", "m">>, <<"i", "a">>, <<"i", "b", "u", "s">>}
locs_itan ==
    {<<"u", "s">>, <<"i">>, <<"o">>, <<"u", "m">>, <<"a">>, <<"a", "e">>,
     <<"a", "m">>, <<"i", "s">>, <<"o", "s">>, <<"a", "s">>,
     <<"o", "r", "u", "m">>, <<"a", "r", "u", "m">>}
locs_an ==
    {<<"u", "s">>, <<"i">>, <<"o">>, <<"u", "m">>, <<"a">>, <<"a", "e">>,
     <<"a", "m">>, <<"o", "r", "u", "m">>, <<"o", "s">>, <<"i", "s">>,
     <<"a", "r", "u", "m">>, <<"a", "s">>}

\* the alternatives of locs that start with \b\w*: what a run of word
\* characters can end with. The alternative for "ian" is joined to the one
\* for "gn" without a "|": it needs a "g" right after a word boundary at the
\* end of a word and never matches
locs_suffixes ==
    {<<"e", "n", "s">> \o e : e \in locs_ens}
    \cup {<<"i", "t", "a", "n">> \o e : e \in locs_itan}
    \cup {<<"a", "n">> \o e : e \in locs_an}

\* the alternatives of locs that are whole words
locs_words ==
    {<<"t", "r", "i", "b">> \o e : e \in
        {<<"u", "s">>, <<"u", "i">>, <<"u", "m">>, <<"u">>,
         <<"u", "u", "m">>, <<"i", "b", "u", "s">>}}
    \cup {<<"c", "i", "v">> \o e : e \in
        {<<"i", "s">>, <<"i">>, <<"e", "m">>, <<"e">>, <<"e", "s">>,
         <<"i", "u", "m">>, <<"i", "b", "u", "s">>}}
    \cup {<<"d", "o", "m", "o">>, <<"o", "r", "i", "g", "o">>,
           <<"n", "a", "t", "i", "o", "n", "e">>}
    \cup {<<"c", "o", "l", "o", "n", "i">> \o e : e \in
        {<<"a">>, <<"a", "e">>, <<"a", "m">>, <<"a", "r", "u", "m">>,
         <<"i", "s">>, <<"a", "s">>}}

\* re.search(locs, s): between two \b lies a whole run of word characters
search_locs(s) ==
    \E run \in word_runs(s, 1, <<>>) :
        \/ run \in locs_words
        \/ \E suffix \in locs_suffixes : PySuffix(run, Len(suffix)) = suffix

\* the gender get_gender_ensis reads from the ending of a name
ending_gender(name) ==
    IF \/ name \in male_names
       \/ PySuffix(name, 2) \in male_suffix
       \/ PySuffix(name, 1) \in male_suffix
    THEN 0
    ELSE IF PySuffix(name, 2) = <<"a", "e">> \/ PySuffix(name, 1) = <<"a">>
         THEN 1
         ELSE -1

\* the first word that tells an origin, and the nearest name-like word
\* before it
get_gender_ensis(r) ==
    IF ~isinstance_str(r.cleantext) THEN -1
    ELSE LET words == split(r.cleantext)
             found == {k \in 1..Len(words) : search_locs(words[k])}
             before == IF found = {} THEN {}
                       ELSE {i \in 1..(Min(found) - 1) : looks_like_name(words[i])}
         IN IF before = {} THEN -1 ELSE ending_gender(words[Max(before)])

\* the endings of the female and male forms of get_filix and get_servx
filix_female ==
    {fili \o e : e \in
        {<<"a">>, <<"a", "e">>, <<"a", "i">>, <<"a", "m">>, <<"a", "d">>,
         <<"a", "r", "u", "m">>, <<"a", "b", "u", "s">>, <<"a", "s">>}}

filix_male ==
    {fili \o e : e \in
        {<<"u", "s">>, <<>>, <<"i">>, <<"o">>, <<"u", "m">>, <<"o", "m">>,
         <<"o", "r", "u", "m">>, <<"o", "s">>}}

servx_female ==
    {serv \o e : e \in
        {<<"a">>, <<"a", "e">>, <<"a", "m">>, <<"a", "r", "u", "m">>,
         <<"a", "b", "u", "s">>, <<"a", "s">>, <<"a", "i">>}}

servx_male ==
    {serv \o e : e \in
        {<<"u", "s">>, <<"i">>, <<"o">>, <<"u", "m">>, <<"e">>,
         <<"o", "r", "u", "m">>, <<"o", "s">>, <<"o", "m">>}}

\* the loop of get_filix and get_servx: the first word in one of the lists
RECURSIVE first_form(_, _, _, _)
first_form(words, k, female, male) ==
    IF k > Len(words) THEN -1
    ELSE IF LowerAll(words[k]) \in female THEN 1
    ELSE IF LowerAll(words[k]) \in male THEN 0
    ELSE first_form(words, k + 1, female, male)

get_filix(r) ==
    IF isinstance_str(r.cleantext)
    THEN first_form(split(r.cleantext), 1, filix_female, filix_male)
    ELSE -1

get_servx(r) ==
    IF isinstance_str(r.cleantext)
    THEN first_form(split(r.cleantext), 1, servx_female, servx_male)
    ELSE None

\* one element of a regular expression: a literal, [a-z] or [a-z]+
Lit(s) == [kind |-> "lit", lit |-> s]
OneLower == [kind |-> "one", lit |-> <<>>]
SomeLower == [kind |-> "plus", lit |-> <<>>]

\* the positions the elements k.. of pattern can match text up to, starting
\* at one of the positions in S
RECURSIVE match_ends(_, _, _, _)
match_ends(pattern, k, text, S) ==
    IF k > Len(pattern) THEN S
    ELSE LET e == pattern[k]
             T == IF e.kind = "lit"
                  THEN {p + Len(e.lit) :
                           p \in {q \in S : /\ q + Len(e.lit) <= Len(text)
                                            /\ SubSeq(text, q + 1, q + Len(e.lit)) = e.lit}}
                  ELSE IF e.kind = "one"
                  THEN {p + 1 : p \in {q \in S : /\ q < Len(text)
                                                 /\ text[q + 1] \in LowerCase}}
                  ELSE {q \in 1..Len(text) :
                           \E p \in S : /\ p < q
                                        /\ \A j \in (p + 1)..q : text[j] \in LowerCase}
         IN match_ends(pattern, k + 1, text, T)

\* re.search(pattern, text)
re_search(pattern, text) == match_ends(pattern, 1, text, 0..Len(text)) /= {}

\* the alternatives of the funerary regex of add_metadata
funerary_regex ==
    {<<Lit(<<"f", "a", "c", "i", "e", "n", "d">>), SomeLower, Lit(<<" ", "c", "u", "r", "a", "v">>), SomeLower>>,
     <<Lit(<<"d", "i", "s", " ", "m", "a", "n", "i", "b", "u", "s">>)>>,
     <<Lit(<<"s", "i", "t">>), SomeLower, Lit(<<" ", "e", "s", "t">>)>>,
     <<Lit(<<"b", "e", "n", "e", " ", "m", "e", "r", "e", "n", "t", "i">>)>>,
     <<Lit(<<"v", "i", "x", "i", "t">>)>>,
     <<Lit(<<"e", "x", " ", "t", "e", "s", "t", "a", "m", "e", "n", "t", "o">>)>>,
     <<Lit(<<"s", "i", "t", " ", "t", "i", "b", "i", " ", "t", "e", "r", "r", "a", " ", "l", "e", "v", "i", "s">>)>>,
     <<Lit(<<"r", "e", "q", "u", "i", "e", "s", "c">>), OneLower, Lit(<<"t">>)>>}

sepulcrales == <<"s", "e", "p", "u", "l", "c", "r", "a", "l", "e", "s">>
viri == <<"v", "i", "r", "i">>

\* np.where(keywords.str.contains("sepulcrales") | text.str.contains(regex))
funerary(r) ==
    IF \/ Contains(r.keywords, sepulcrales)
       \/ \E pattern \in funerary_regex : re_search(pattern, LowerAll(r.cleantext))
    THEN 1 ELSE 0

\* a row and the columns a step adds to it
WithColumns(r, columns) == columns @@ r

\* np.where(column.str.contains(...), 1, 0): for a value that is not a
\* string str.contains gives NaN, which np.where takes for true
where(s, found) == IF ~isinstance_str(s) \/ found THEN 1 ELSE 0

\* the words of the pattern "free" of add_status
free_pattern ==
    {fili \o e : e \in
        {<<"u", "s">>, <<"i">>, <<"o">>, <<"u", "m">>, <<"o", "m">>,
         <<"o", "r", "u", "m">>, <<"i", "s">>, <<"o", "s">>, <<"a">>,
         <<"a", "e">>, <<"a", "i">>, <<"a", "m">>, <<"a", "d">>,
         <<"a", "r", "u", "m">>, <<"a", "b", "u", "s">>, <<"a", "s">>}}

\* text.str.contains(r'\b...(?:...)\b'): a whole run of word characters is
\* one of the forms
contains_word(text, forms) ==
    where(text, \E run \in word_runs(text, 1, <<>>) : run \in forms)

\* add_status for one row; the patterns "slave" and "lib" have the endings
\* of the lists of get_legal_status
add_status(r) ==
    WithColumns(r,
        [slave        |-> contains_word(r.cleantext, slave),
         freed        |-> contains_word(r.cleantext, freed),
         freeborn     |-> contains_word(r.cleantext, free_pattern),
         legal_status |-> get_legal_status(r)])

\* add_gender for one row, each column computed from the columns before it
add_gender(r, known) ==
    LET r1 == WithColumns(r, [name |-> get_name(r, known)])
        r2 == WithColumns(r1, [contains_name |-> IF Len(r1.name) > 2 THEN 1 ELSE 0])
        r3 == WithColumns(r2,
                 [gender_main_pers |-> get_gender_person(r2),
                  viri     |-> where(r.keywords, Contains(r.keywords, <<"v", "i", "r">>)),
                  mulieres |-> where(r.keywords,
                                     Contains(r.keywords, <<"m", "u", "l", "i", "e", "r">>))])
        r4 == WithColumns(r3,
                 [m |-> IF r3.viri = 1 \/ r3.gender_main_pers = 0 THEN 1 ELSE 0,
                  f |-> IF r3.mulieres = 1 \/ r3.gender_main_pers = 1 THEN 1 ELSE 0])
    IN WithColumns(r4,
          [gender_keywords    |-> get_gender_keywords(r4),
           gender_of_1st_Word |-> gender_firstword(r4),
           gender_ensis       |-> get_gender_ensis(r4),
           gender_filix       |-> get_filix(r4),
           gender_servx       |-> get_servx(r4)])

\* add_metadata for one row of the EDCS
metadata_row(r, known) ==
    LET r5 == add_gender(r, known)
        r6 == add_status(WithColumns(r5, [gender |-> assign_gender(r5)]))
    IN WithColumns(r6,
          [text_length |-> IF isinstance_str(r.cleantext) THEN Len(r.cleantext) ELSE nan,
           funerary    |-> funerary(r6),
           location_indicator |->
               where(r.cleantext, search_locs(LowerAll(r.cleantext)))])

\* add_metadata; export is the PIR export add_gender has get_name_set read
add_metadata(rows, export) ==
    LET known == get_name_set(export)
    IN [k \in 1..Len(rows) |-> metadata_row(rows[k], known)]

----------------------------------------------------------------------------
(* EDCS_Find_Migrants_quick.py: GeoResolver *)

\* distances are in 1/100 km: the 10 of "distance > 10"
Threshold == 1000

\* re.search(r'\b(?:[a-z]+)\b', s)
has_lowercase_word(s) ==
    \E w \in word_runs(s, 1, <<>>) : \A k \in 1..Len(w) : w[k] \in LowerCase

\* re.search(r'\bMens(?:[a-z]+)\b', s)
has_mens_word(s) ==
    \E w \in word_runs(s, 1, <<>>) :
        /\ Len(w) > 4
        /\ SubSeq(w, 1, 4) = <<"M", "e", "n", "s">>
        /\ \A k \in 5..Len(w) : w[k] \in LowerCase

\* df[mask]: the rows at the positions in mask, in their order
RECURSIVE rows_at(_, _, _)
rows_at(rows, mask, k) ==
    IF k > Len(rows) THEN <<>>
    ELSE (IF k \in mask THEN <<rows[k]>> ELSE <<>>) \o rows_at(rows, mask, k + 1)

\* remove_nonmigrants without its second filter
remove_nonmigrants_lowercase_only(rows) ==
    LET delete == {k \in 1..Len(rows) : has_lowercase_word(rows[k].toponym)}
    IN rows_at(rows, (1..Len(rows)) \ delete, 1)

remove_nonmigrants(rows) ==
    LET delete == {k \in 1..Len(rows) : has_lowercase_word(rows[k].toponym)}
        kept == rows_at(rows, (1..Len(rows)) \ delete, 1)
        remove == {k \in 1..Len(kept) : has_mens_word(kept[k].toponym)}
    IN rows_at(kept, (1..Len(kept)) \ remove, 1)

\* hs.haversine(findspot, origo) in 1/100 km, after round_distances: every
\* inscription with a known find-spot (find_lat 0) is found at one spot, and
\* the origins <<"A">>..<<"E">> lie 10.00, 10.01, 12.70, 50.20 and 12.70 km
\* from it; with an unknown find-spot (find_lat NaN) the result is NaN
haversine(r) ==
    IF r.find_lat = nan THEN nan
    ELSE CASE r.origo_LatLong = <<"A">> -> 1000
           [] r.origo_LatLong = <<"B">> -> 1001
           [] r.origo_LatLong = <<"C">> -> 1270
           [] r.origo_LatLong = <<"D">> -> 5020
           [] r.origo_LatLong = <<"E">> -> 1270

\* add_distance with the boundary included
add_distance_from_threshold(r) ==
    IF isinstance_str(r.origo_LatLong) /\ haversine(r) /= nan
       /\ haversine(r) >= Threshold
    THEN haversine(r)
    ELSE nan

\* a comparison with NaN is false
add_distance(r) ==
    IF isinstance_str(r.origo_LatLong) /\ haversine(r) /= nan
       /\ haversine(r) > Threshold
    THEN haversine(r)
    ELSE nan

\* migrants['distance'] = migrants.apply(add_distance): the other columns stay
with_distance(rows) ==
    [k \in 1..Len(rows) |->
        [f \in DOMAIN rows[k] \cup {"distance"} |->
            IF f = "distance" THEN add_distance(rows[k]) ELSE rows[k][f]]]

\* sort_values with na_position='first'
sorts_before_nan_first(a, b) ==
    \/ a.edcs_id < b.edcs_id
    \/ /\ a.edcs_id = b.edcs_id
       /\ b.distance /= nan
       /\ (a.distance = nan \/ a.distance < b.distance)

\* the order of sort_values(by=['edcs_id', 'distance']): NaN comes last
sorts_before(a, b) ==
    \/ a.edcs_id < b.edcs_id
    \/ /\ a.edcs_id = b.edcs_id
       /\ a.distance /= nan
       /\ (b.distance = nan \/ a.distance < b.distance)

\* one row put into sorted rows before the rows it ties with: a sort that
\* is not stable
insert_row_before_ties(sorted, r) ==
    LET before == {k \in 1..Len(sorted) : ~sorts_before(sorted[k], r)}
        at == IF before = {} THEN Len(sorted) + 1 ELSE Min(before)
    IN SubSeq(sorted, 1, at - 1) \o <<r>> \o SubSeq(sorted, at, Len(sorted))

\* one row put into sorted rows behind every row it does not sort before
insert_row(sorted, r) ==
    LET before == {k \in 1..Len(sorted) : sorts_before(r, sorted[k])}
        at == IF before = {} THEN Len(sorted) + 1 ELSE Min(before)
    IN SubSeq(sorted, 1, at - 1) \o <<r>> \o SubSeq(sorted, at, Len(sorted))

\* a stable sort: rows that compare equal keep their order
RECURSIVE sort_values(_, _, _)
sort_values(rows, k, sorted) ==
    IF k > Len(rows) THEN sorted
    ELSE sort_values(rows, k + 1, insert_row(sorted, rows[k]))

\* drop_duplicates(subset=['edcs_id'], keep='first')
drop_duplicates(rows) ==
    LET first == {k \in 1..Len(rows) :
                     \A j \in 1..(k - 1) : rows[j].edcs_id /= rows[k].edcs_id}
    IN rows_at(rows, first, 1)

\* remove_duplicates without the sort
remove_duplicates_unsorted(rows) == drop_duplicates(rows)

remove_duplicates(rows) == drop_duplicates(sort_values(rows, 1, <<>>))

\* add_details without its last step
add_details_keeps_duplicates(rows) ==
    with_distance(remove_nonmigrants(rows))

add_details(rows) ==
    remove_duplicates(with_distance(remove_nonmigrants(rows)))

----------------------------------------------------------------------------
(* EDCS_Find_Migrants_quick.py: find_migrants and quick_master *)

ens == <<"e", "n", "s">>

\* a suffix list with the nominative only
ens_endings_nominative == {<<"i", "s">>}

\* the endings of r'\b{}ens(?:is|i|em|e|es|ium|ia|ibus)\b'
ens_endings ==
    {<<"i", "s">>, <<"i">>, <<"e", "m">>, <<"e">>, <<"e", "s">>,
     <<"i", "u", "m">>, <<"i", "a">>, <<"i", "b", "u", "s">>}

\* the maximal runs of \w characters of s, in their order
RECURSIVE word_run_seq(_, _, _)
word_run_seq(s, k, run) ==
    IF k > Len(s)
    THEN IF run = <<>> THEN <<>> ELSE <<run>>
    ELSE IF s[k] \in WordChars
         THEN word_run_seq(s, k + 1, Append(run, s[k]))
         ELSE (IF run = <<>> THEN <<>> ELSE <<run>>) \o word_run_seq(s, k + 1, <<>>)

\* re.findall(loc, text) for a stem of letters: between two \b the pattern
\* matches a whole run of word characters, the stem followed by "ens" and
\* one of the endings
RECURSIVE matching_runs(_, _, _)
matching_runs(runs, k, theStem) ==
    IF k > Len(runs) THEN <<>>
    ELSE (IF \E e \in ens_endings : runs[k] = theStem \o ens \o e
          THEN <<runs[k]>> ELSE <<>>) \o matching_runs(runs, k + 1, theStem)

findall(theStem, text) == matching_runs(word_run_seq(text, 1, <<>>), 1, theStem)

\* the located flag with the find-spot looked at as well
located_both_ends(c) ==
    IF isinstance_str(c.origo_LatLong) /\ Len(c.origo_LatLong) >= 1
       /\ c.find_lat /= nan
    THEN 1 ELSE 0

\* migrants.at[r, 'located']
located(c) ==
    IF isinstance_str(c.origo_LatLong) /\ Len(c.origo_LatLong) >= 1
    THEN 1 ELSE 0

\* the row of a match with the located flag written to the funerary column
candidate_flag_in_funerary(insc, entry, matches) ==
    LET c == WithColumns(insc,
                 [origo         |-> entry.title,
                  toponym       |-> join(<<",">>, matches),
                  origo_LatLong |-> entry.reprLatLong,
                  pid           |-> entry.pid,
                  pleiades      |-> 1])
    IN WithColumns(c, [located |-> located(c), funerary |-> located(c)])

\* the row find_migrants adds for a match: the row of the inscription and
\* the columns of the gazetteer entry (origo_lat, origo_long and path, which
\* nothing here reads, are left out)
candidate(insc, entry, matches) ==
    LET c == WithColumns(insc,
                 [origo         |-> entry.title,
                  toponym       |-> join(<<",">>, matches),
                  origo_LatLong |-> entry.reprLatLong,
                  pid           |-> entry.pid,
                  pleiades      |-> 1])
    IN WithColumns(c, [located |-> located(c)])

\* for insc in edcs.itertuples()
RECURSIVE scan_inscriptions(_, _, _, _)
scan_inscriptions(inscs, k, entry, theStem) ==
    IF k > Len(inscs) THEN <<>>
    ELSE LET matches == IF isinstance_str(inscs[k].cleantext)
                        THEN findall(theStem, inscs[k].cleantext)
                        ELSE <<>>
         IN (IF matches /= <<>> THEN <<candidate(inscs[k], entry, matches)>> ELSE <<>>)
            \o scan_inscriptions(inscs, k + 1, entry, theStem)

\* for stem in stems
RECURSIVE scan_stems(_, _, _, _)
scan_stems(inscs, entry, theStems, k) ==
    IF k > Len(theStems) THEN <<>>
    ELSE scan_inscriptions(inscs, 1, entry, theStems[k])
         \o scan_stems(inscs, entry, theStems, k + 1)

\* for row in pleiades.itertuples()
RECURSIVE scan_pleiades(_, _, _)
scan_pleiades(inscs, entries, k) ==
    IF k > Len(entries) THEN <<>>
    ELSE scan_stems(inscs, entries[k], find_migrants_stems(entries[k].stem), 1)
         \o scan_pleiades(inscs, entries, k + 1)

\* the inscriptions searched when none is left out
funerary_rows_unfiltered(rows) == rows

\* edcs[edcs['funerary'] == 1]
funerary_rows(rows) == rows_at(rows, {k \in 1..Len(rows) : rows[k].funerary = 1}, 1)

\* the dataframe find_migrants saves as 'EDCS_Migrants_quick_Raw01'
find_migrants_raw(rows, entries) == scan_pleiades(funerary_rows(rows), entries, 1)

\* drop_duplicates(subset=['edcs_id', 'origo_LatLong']); NaN equals NaN here
drop_duplicates_origo(rows) ==
    LET first == {k \in 1..Len(rows) :
                     \A j \in 1..(k - 1) :
                        \/ rows[j].edcs_id /= rows[k].edcs_id
                        \/ rows[j].origo_LatLong /= rows[k].origo_LatLong}
    IN rows_at(rows, first, 1)

find_migrants(rows, entries) == drop_duplicates_origo(find_migrants_raw(rows, entries))

\* the columns quick_master takes from migrants, as far as they are modelled
merged_columns ==
    {"origo", "toponym", "origo_LatLong", "pid", "pleiades", "located", "distance"}

\* the columns of an inscription without a row in migrants
unmatched ==
    [origo |-> NaN, toponym |-> NaN, origo_LatLong |-> NaN,
     pid |-> nan, pleiades |-> nan, located |-> nan, distance |-> nan]

\* the rows a left merge on edcs_id gives for one row of the EDCS
merge_row(e, found) ==
    LET hits == rows_at(found, {k \in 1..Len(found) : found[k].edcs_id = e.edcs_id}, 1)
    IN IF hits = <<>> THEN <<WithColumns(e, unmatched)>>
       ELSE [k \in 1..Len(hits) |->
                WithColumns(e, [f \in merged_columns |-> hits[k][f]])]

quick_master(found, rows) == Concat([k \in 1..Len(rows) |-> merge_row(rows[k], found)])

----------------------------------------------------------------------------
(* TextNormalizer: raw texts are built from at most MaxPieces pieces *)

MaxPieces == 3

Pieces ==
    {<<"a">>, <<"B">>, <<" ">>, <<"3">>, <<"?">>,
     <<"[">>, <<"]">>, <<"<">>, <<"=">>, <<">">>, <<"{">>, <<"}">>,
     <<"[", "3", "]">>, <<"<", "A", "B", "=", "c", ">">>, <<"{", "b", "}">>}

RawTexts == {Concat(ps) : ps \in UNION {[1..n -> Pieces] : n \in 0..MaxPieces}}

TextInit ==
    /\ pc = "raw"
    /\ raw \in RawTexts
    /\ clean = <<>>
    /\ reclean = <<>>
    /\ ClassIdle
    /\ StemIdle
    /\ GeoIdle
    /\ PipeIdle
    /\ PlaceIdle
    /\ DecodeIdle

\* the record's cleaned text is computed from its raw text
Normalize ==
    /\ pc = "raw"
    /\ clean' = get_cleantext(raw)
    /\ pc' = "clean"
    /\ UNCHANGED <<placeVars, decodeVars, raw, reclean, classVars, stemVars, geoVars, pipeVars>>

\* an already cleaned text is normalised again
Renormalize ==
    /\ pc = "clean"
    /\ reclean' = get_cleantext(clean)
    /\ pc' = "reclean"
    /\ UNCHANGED <<placeVars, decodeVars, raw, clean, classVars, stemVars, geoVars, pipeVars>>

TextNext == Normalize \/ Renormalize

Spec == TextInit /\ [][TextNext]_vars

----------------------------------------------------------------------------
(* DemographicClassifier: assign_gender over every combination of signals *)

Signals == {-1, 0, 1}

GenderRows ==
    [gender_keywords : Signals, gender_filix : Signals,
     gender_servx : Signals \cup {None}, gender_of_1st_Word : Signals]

GenderInit ==
    /\ pc = "signals"
    /\ row \in GenderRows
    /\ gender = "unset"
    /\ legal_status = "unset"
    /\ pir = <<>>
    /\ TextIdle
    /\ StemIdle
    /\ GeoIdle
    /\ PipeIdle
    /\ PlaceIdle
    /\ DecodeIdle

\* add_metadata: edcs['gender'] = assign_gender(row)
AssignGender ==
    /\ pc = "signals"
    /\ gender' = assign_gender(row)
    /\ pc' = "gender"
    /\ UNCHANGED <<placeVars, decodeVars, row, legal_status, pir, textVars, stemVars, geoVars, pipeVars>>

GenderNext == AssignGender

SpecGender == GenderInit /\ [][GenderNext]_vars

----------------------------------------------------------------------------
(* DemographicClassifier: get_legal_status over short cleaned texts *)

MaxWords == 3

Vocabulary ==
    {serv \o <<"u", "s">>, <<"S">> \o Tail(serv) \o <<"a", "e">>,
     libert \o <<"o">>, fili \o <<"u", "s">>, <<"F">> \o Tail(fili) \o <<"a">>,
     <<"M", "a", "r", "c", "u", "s">>, <<"v", "i", "x", "i", "t">>}

CleanTexts ==
    {join(<<" ">>, ws) : ws \in UNION {[1..n -> Vocabulary] : n \in 0..MaxWords}}

StatusInit ==
    /\ pc = "text"
    /\ row \in {[cleantext |-> t] : t \in CleanTexts \cup {NaN}}
    /\ gender = "unset"
    /\ legal_status = "unset"
    /\ pir = <<>>
    /\ TextIdle
    /\ StemIdle
    /\ GeoIdle
    /\ PipeIdle
    /\ PlaceIdle
    /\ DecodeIdle

\* add_status: edcs['legal_status'] = get_legal_status(row)
GetLegalStatus ==
    /\ pc = "text"
    /\ legal_status' = get_legal_status(row)
    /\ pc' = "status"
    /\ UNCHANGED <<placeVars, decodeVars, row, gender, pir, textVars, stemVars, geoVars, pipeVars>>

StatusNext == GetLegalStatus

SpecStatus == StatusInit /\ [][StatusNext]_vars

----------------------------------------------------------------------------
(* DemographicClassifier: add_metadata for one row of the EDCS *)

MaxTokens == 3

\* the words of a cleaned text: formula words, names in several cases, a
\* name with an ending of neither table, status words, a word of origin
\* and a name with a Greek letter
Tokens ==
    {<<"D", "i", "s">>, <<"M", "a", "n", "i", "b", "u", "s">>,
     <<"M", "a", "r", "c", "i">>, <<"F", "e", "l", "i", "x">>,
     <<"I", "u", "l", "i", "a">>, <<"S", "e", "r", "v", "u", "s">>, fili,
     <<"R", "o", "m", "a", "n", "u", "s">>,
     <<"M", "a", "rho", "c", "u", "s">>}

TokenTexts ==
    {join(<<" ">>, ws) : ws \in UNION {[1..n -> Tokens] : n \in 0..MaxTokens}}

\* the keywords of a row; a missing value is read back as NaN
Keywords == {viri, sepulcrales, NaN}

\* the 'annotated' column of the PIR export: no name, or one name
PirExports == {<<>>, <<<<"M", "a", "n", "i", "b", "u", "s">>>>}

ClassifyInit ==
    /\ pc = "edcs_row"
    /\ row \in [cleantext : TokenTexts \cup {NaN}, keywords : Keywords]
    /\ pir \in PirExports
    /\ gender = "unset"
    /\ legal_status = "unset"
    /\ TextIdle
    /\ StemIdle
    /\ GeoIdle
    /\ PipeIdle
    /\ PlaceIdle
    /\ DecodeIdle

\* edcs = add_metadata(edcs), for the one row
AddMetadataRow ==
    /\ pc = "edcs_row"
    /\ row' = metadata_row(row, get_name_set(pir))
    /\ gender' = row'.gender
    /\ legal_status' = row'.legal_status
    /\ pc' = "metadata"
    /\ UNCHANGED <<pir, textVars, stemVars, geoVars, pipeVars, placeVars, decodeVars>>

ClassifyNext == AddMetadataRow

SpecClassify == ClassifyInit /\ [][ClassifyNext]_vars

----------------------------------------------------------------------------
(* EDCS_S_Extract.py: get_insc_dict for one scraped inscription, and the
   way of its record through the csv to add_metadata *)

Publikation == <<"P", "u", "b", "l", "i", "k", "a", "t", "i", "o", "n", ":">>
Datierung == <<"D", "a", "t", "i", "e", "r", "u", "n", "g", ":">>
EDCS_ID == <<"E", "D", "C", "S", "-", "I", "D", ":">>
Provinz == <<"P", "r", "o", "v", "i", "n", "z", ":">>
Ort == <<"O", "r", "t", ":">>
Personenstatus == <<"I", "n", "s", "c", "h", "r", "i", "f", "t", "e", "n", "g", "a", "t", "t", "u", "n", "g", " ", "/", " ", "P", "e", "r", "s", "o", "n", "e", "n", "s", "t", "a", "t", "u", "s", ":">>
Material == <<"M", "a", "t", "e", "r", "i", "a", "l", ":">>
Kommentar == {<<"K", "o", "m", "m", "e", "n", "t", "a", "r">>, <<"K", "o", "m", "m", "e", "n", "t", "a", "r", ":">>}

n_a == <<"n", "/", "a">>

\* the dictionary get_insc_dict creates for an inscription
defaults ==
    [publication |-> n_a, edcs_id |-> NaN, time_from |-> nan, time_to |-> nan,
     province |-> n_a, findspot |-> n_a, find_lat |-> NaN, find_long |-> NaN,
     text |-> n_a, cleantext |-> n_a, keywords |-> n_a, material |-> n_a,
     comment |-> n_a]

\* place.find(tag)
find_str(place, tag) ==
    LET S == {k \in 0..(Len(place) - Len(tag)) :
                 SubSeq(place, k + 1, k + Len(tag)) = tag}
    IN IF S = {} THEN -1 ELSE Min(S)

\* the loop of get_lat and get_long from position i: the characters of the
\* number up to the first other character, as float(result) or result has
\* them; at the end of the string the loop ends and the function returns None
RECURSIVE number_from(_, _, _)
number_from(place, i, result) ==
    IF i >= Len(place) THEN NoneStr
    ELSE IF isnumeric(PyAt(place, i)) \/ PyAt(place, i) \in {".", "-"}
         THEN number_from(place, i + 1, Append(result, PyAt(place, i)))
         ELSE result

get_lat(place) ==
    LET start == find_str(place, <<"l", "a", "t", "i", "t", "u", "d", "e", "=">>)
    IN IF start = -1 THEN NaN ELSE number_from(place, start + 9, <<>>)

get_long(place) ==
    LET start == find_str(place, <<"l", "o", "n", "g", "i", "t", "u", "d", "e", "=">>)
    IN IF start = -1 THEN NaN ELSE number_from(place, start + 10, <<>>)

\* int(re.sub(r'\D', '', elem)): the digits of elem read as a number, nan
\* for the ValueError of an elem without a digit
RECURSIVE int_of(_, _)
int_of(digits, value) ==
    IF digits = <<>> THEN value
    ELSE int_of(Tail(digits), 10 * value + (CASE digits[1] = "3" -> 3))

number_in(e) ==
    LET digits == SelectSeq(e, LAMBDA c : c \in Digits)
    IN IF digits = <<>> THEN nan ELSE int_of(digits, 0)

get_date(snippet, smallest) ==
    LET numbers == {number_in(snippet[k]) : k \in 1..Len(snippet)} \ {nan}
    IN IF numbers = {} THEN nan
       ELSE IF smallest THEN Min(numbers)
       ELSE CHOOSE x \in numbers : \A y \in numbers : y <= x

\* insc.index(e) for an e that is in insc
index(insc, e) == Min({k \in 1..Len(insc) : insc[k] = e}) - 1

\* insc[a:b]
list_slice(insc, a, b) == SubSeq(insc, a + 1, IF b < Len(insc) THEN b ELSE Len(insc))

\* the outcome of a step: the dictionary, or IndexError raised
Ok(d) == [raised |-> FALSE, inscription |-> d]
Raised == [raised |-> TRUE, inscription |-> IndexError]

\* the match statement for element idx of insc; insc[idx + j] raises
\* IndexError behind the end of the list and insc[idx - 1] is the last
\* element for idx = 0. The inscriptions around insc that a comment can run
\* on into are not part of insc
match_elem(insc, idx, d) ==
    LET e == PyAt(insc, idx)
        has(j) == idx + j < Len(insc)
        next(j) == PyAt(insc, idx + j)
    IN CASE e = Publikation ->
              IF has(1) THEN Ok([d EXCEPT !.publication = next(1)]) ELSE Raised
         [] e = Datierung ->
              LET snippet == list_slice(insc, idx, index(insc, EDCS_ID))
              IN Ok([d EXCEPT !.time_from = get_date(snippet, TRUE),
                              !.time_to = get_date(snippet, FALSE)])
         [] e = EDCS_ID ->
              IF has(1) THEN Ok([d EXCEPT !.edcs_id = next(1)]) ELSE Raised
         [] e = Provinz ->
              IF has(1) THEN Ok([d EXCEPT !.province = next(1)]) ELSE Raised
         [] e = Ort ->
              IF ~has(1) THEN Raised
              ELSE IF PySliceTo(next(1), 4) = <<"<", "!", "-", "-">>
                   THEN IF has(4)
                        THEN Ok([d EXCEPT !.findspot = next(2),
                                          !.find_lat = get_lat(next(1)),
                                          !.find_long = get_long(next(1)),
                                          !.text = next(4)])
                        ELSE Raised
                   ELSE IF has(2)
                        THEN Ok([d EXCEPT !.findspot = next(1), !.text = next(2)])
                        ELSE Raised
         [] e = Personenstatus ->
              IF has(1)
              THEN Ok([d EXCEPT !.keywords = next(1),
                                !.text = IF d.text = n_a
                                         THEN PyAt(insc, idx - 1) ELSE d.text])
              ELSE Raised
         [] e = Material ->
              IF has(1)
              THEN Ok([d EXCEPT !.material = next(1),
                                !.text = IF d.text = n_a /\ d.keywords = n_a
                                         THEN PyAt(insc, idx - 1) ELSE d.text])
              ELSE Raised
         [] e \in Kommentar ->
              Ok([d EXCEPT !.comment =
                     join(<<" ">>, list_slice(insc, idx + 1, Len(insc)))])
         [] OTHER -> Ok(d)

\* the loop over the elements of insc from element idx: after the match
\* statement of every element the cleantext is computed from the text
RECURSIVE elements_from(_, _, _)
elements_from(insc, idx, d) ==
    IF idx >= Len(insc) THEN Ok(d)
    ELSE LET matched == match_elem(insc, idx, d)
         IN IF matched.raised THEN Raised
            ELSE elements_from(insc, idx + 1,
                    [matched.inscription EXCEPT
                        !.cleantext = get_cleantext(matched.inscription.text)])

\* the body of the loop of get_insc_dict for an insc with an EDCS-ID
get_insc_dict(insc) == elements_from(insc, 0, defaults)

\* the strings pd.read_csv reads as NaN, among them the empty field
na_values ==
    {<<>>, <<"#", "N", "/", "A">>, <<"#", "N", "/", "A", " ", "N", "/", "A">>, <<"#", "N", "A">>, <<"-", "1", ".", "#", "I", "N", "D">>, <<"-", "1", ".", "#", "Q", "N", "A", "N">>, <<"-", "N", "a", "N">>, <<"-", "n", "a", "n">>,
     <<"1", ".", "#", "I", "N", "D">>, <<"1", ".", "#", "Q", "N", "A", "N">>, <<"<", "N", "A", ">">>, <<"N", "/", "A">>, <<"N", "A">>, <<"N", "U", "L", "L">>, <<"N", "a", "N">>, <<"N", "o", "n", "e">>, <<"n", "/", "a">>,
     <<"n", "a", "n">>, <<"n", "u", "l", "l">>}

\* a string column of the csv create_csv wrote, as open_database reads it
read_csv(value) == IF value \in na_values THEN NaN ELSE value

----------------------------------------------------------------------------
(* InscriptionDecoder: a scraped inscription is a list of at most
   MaxElements elements *)

MaxElements == 4

Place_comment == <<"<", "!", "-", "-", "l", "a", "t", "i", "t", "u", "d", "e", "=", "3", " ", "l", "o", "n", "g", "i", "t", "u", "d", "e", "=", "-", "3", " ", "-", "-", ">">>

ScrapedElements ==
    {EDCS_ID, <<"E", "D", "C", "S", "-", "3">>, Ort, Place_comment, <<"D", "i", "s", " ", "M", "a", "n", "i", "b", "u", "s">>, Personenstatus,
     Material, Datierung, <<"K", "o", "m", "m", "e", "n", "t", "a", "r", ":">>}

DecodeInit ==
    /\ pc = "insc"
    /\ scraped \in UNION {[1..n -> ScrapedElements] : n \in 1..MaxElements}
    /\ inscription = <<>>
    /\ TextIdle
    /\ ClassIdle
    /\ StemIdle
    /\ GeoIdle
    /\ PipeIdle
    /\ PlaceIdle

HasId(insc) == \E k \in 1..Len(insc) : insc[k] = EDCS_ID

\* if "EDCS-ID:" not in insc: continue
SkipInscription ==
    /\ pc = "insc"
    /\ ~HasId(scraped)
    /\ pc' = "skipped"
    /\ UNCHANGED <<decodeVars, textVars, classVars, stemVars, geoVars, pipeVars, placeVars>>

\* insc_dict[edcs_id] = inscription
DecodeInscription ==
    /\ pc = "insc"
    /\ HasId(scraped)
    /\ ~get_insc_dict(scraped).raised
    /\ inscription' = get_insc_dict(scraped).inscription
    /\ pc' = "decoded"
    /\ UNCHANGED <<scraped, textVars, classVars, stemVars, geoVars, pipeVars, placeVars>>

\* a label at the end of the list: get_insc_dict raises IndexError
DecodeRaises ==
    /\ pc = "insc"
    /\ HasId(scraped)
    /\ get_insc_dict(scraped).raised
    /\ inscription' = IndexError
    /\ pc' = "raised"
    /\ UNCHANGED <<scraped, textVars, classVars, stemVars, geoVars, pipeVars, placeVars>>

\* create_csv, then open_database of EDCS_Find_Migrants_quick.py: the row
\* of the inscription in the dataframe add_metadata is given
OpenDatabase ==
    /\ pc = "decoded"
    /\ row' = [cleantext |-> read_csv(inscription.cleantext),
               keywords |-> read_csv(inscription.keywords)]
    /\ pc' = "edcs_row"
    /\ UNCHANGED <<gender, legal_status, pir, decodeVars, textVars, stemVars,
                   geoVars, pipeVars, placeVars>>

DecodeNext ==
    SkipInscription \/ DecodeInscription \/ DecodeRaises \/ OpenDatabase
    \/ AddMetadataRow

SpecDecode == DecodeInit /\ [][DecodeNext]_vars

----------------------------------------------------------------------------
(* GazetteerStemmer: add_stem and the stems find_migrants takes from it *)

MaxNameParts == 4

NameParts ==
    {<<"E", "m", "e", "r">>, <<"L", "a", "t">>, Castr, <<"B">>,
     <<"a">>, <<"i">>, <<"u">>, <<"m">>, <<"t">>, <<",", " ">>}

PlaceNames ==
    {Concat(ps) : ps \in UNION {[1..n -> NameParts] : n \in 0..MaxNameParts}}

StemInit ==
    /\ pc = "placenames"
    /\ placenames \in PlaceNames \cup {NoneStr}
    /\ stem_list = <<>>
    /\ stem = <<>>
    /\ stems = <<>>
    /\ TextIdle
    /\ ClassIdle
    /\ GeoIdle
    /\ PipeIdle
    /\ PlaceIdle
    /\ DecodeIdle

\* pleiades['stem'] = pleiades.apply(add_stem)
AddStem ==
    /\ pc = "placenames"
    /\ stem_list' = add_stem_list(placenames).stem_list
    /\ stem' = add_stem(placenames)
    /\ pc' = IF add_stem_list(placenames).raised THEN "raised" ELSE "stem"
    /\ UNCHANGED <<placeVars, decodeVars, placenames, stems, textVars, classVars, geoVars, pipeVars>>

\* find_migrants: the blocklist replacement and the split of row.stem
FindMigrantsStems ==
    /\ pc = "stem"
    /\ stems' = find_migrants_stems(stem)
    /\ pc' = "stems"
    /\ UNCHANGED <<placeVars, decodeVars, placenames, stem_list, stem, textVars, classVars, geoVars, pipeVars>>

StemNext == AddStem \/ FindMigrantsStems

SpecStem == StemInit /\ [][StemNext]_vars

----------------------------------------------------------------------------
(* GazetteerStemmer: get_place_names for one row of the Pleiades names, then
   add_stem and the stems of find_migrants *)

MaxNamePieces == 3

NamePieces ==
    {<<"E", "m", "e", "r", "i", "t">>, <<"a">>, <<"(", "a", ")">>,
     <<"(", "i", ")">>, omission, <<" ">>, <<",">>, <<"/">>, <<"<">>, <<">">>,
     Castr}

\* nameTransliterated
TransliteratedNames ==
    {Concat(ps) : ps \in UNION {[1..n -> NamePieces] : n \in 0..MaxNamePieces}}

\* timePeriods: Roman, mediaeval, or missing
TimePeriods == {<<"R">>, <<"M">>, NaN}

PlaceInit ==
    /\ pc = "row"
    /\ timePeriods \in TimePeriods
    /\ elem \in TransliteratedNames
    /\ place_names = {}
    /\ StemIdle
    /\ TextIdle
    /\ ClassIdle
    /\ GeoIdle
    /\ PipeIdle
    /\ DecodeIdle

\* get_place_names: a row of no ancient period keeps placenames None
NotRelevant ==
    /\ pc = "row"
    /\ ~relevant(timePeriods)
    /\ placenames' = NoneStr
    /\ pc' = "placenames"
    /\ UNCHANGED <<placeVars, stem_list, stem, stems, textVars, classVars,
                   geoVars, pipeVars, decodeVars>>

\* one iteration of the while loop of no_tags
NoTagsLoop ==
    /\ pc = "row"
    /\ relevant(timePeriods)
    /\ Find(elem, "<", 0) /= -1
    /\ elem' = no_tags_step(elem)
    /\ UNCHANGED <<pc, timePeriods, place_names, stemVars, textVars, classVars,
                   geoVars, pipeVars, decodeVars>>

\* no_tags returns, and get_place_names makes the placenames of the row
GetPlaceNames ==
    /\ pc = "row"
    /\ relevant(timePeriods)
    /\ Find(elem, "<", 0) = -1
    /\ place_names' = get_place_names_set(elem)
    /\ placenames' \in joined(place_names')
    /\ pc' = "placenames"
    /\ UNCHANGED <<timePeriods, elem, stem_list, stem, stems, textVars,
                   classVars, geoVars, pipeVars, decodeVars>>

PlaceNext ==
    NotRelevant \/ NoTagsLoop \/ GetPlaceNames \/ AddStem \/ FindMigrantsStems

SpecPlaceNames == PlaceInit /\ [][PlaceNext]_vars

\* a loop that can run does run
SpecPlaceNamesFair == SpecPlaceNames /\ WF_vars(PlaceNext)

----------------------------------------------------------------------------
(* GeoResolver: add_details over short candidate tables *)

MaxRows == 3

Ids == {1, 2}

Emeritensi == <<"E", "m", "e", "r", "i", "t", "e", "n", "s", "i">>
Emeritensis == Emeritensi \o <<"s">>
castrensis == <<"c", "a", "s", "t", "r", "e", "n", "s", "i", "s">>
Mensibus == <<"M", "e", "n", "s", "i", "b", "u", "s">>

\* the origin and matched form of a candidate
Matches ==
    {[origo_LatLong |-> <<"A">>, toponym |-> Emeritensi],
     [origo_LatLong |-> <<"B">>, toponym |-> Emeritensi],
     [origo_LatLong |-> <<"C">>, toponym |-> Emeritensi],
     [origo_LatLong |-> <<"D">>, toponym |-> Emeritensi],
     [origo_LatLong |-> NaN, toponym |-> Emeritensi],
     [origo_LatLong |-> <<"E">>, toponym |-> Emeritensi],
     [origo_LatLong |-> <<"D">>, toponym |-> Emeritensi \o <<",">> \o Emeritensis],
     [origo_LatLong |-> <<"D">>, toponym |-> castrensis],
     [origo_LatLong |-> <<"C">>, toponym |-> Mensibus]}

\* the matches of the second inscription: with and without a distance, and
\* a lowercase form
FewMatches ==
    {[origo_LatLong |-> <<"B">>, toponym |-> Emeritensi],
     [origo_LatLong |-> NaN, toponym |-> Emeritensi],
     [origo_LatLong |-> <<"D">>, toponym |-> castrensis]}

\* every inscription of a candidate has a known find-spot here
CandidateRows ==
    {[edcs_id |-> i, find_lat |-> 0,
      origo_LatLong |-> m.origo_LatLong, toponym |-> m.toponym] :
        i \in Ids, m \in Matches} \
    {[edcs_id |-> 2, find_lat |-> 0,
      origo_LatLong |-> m.origo_LatLong, toponym |-> m.toponym] :
        m \in Matches \ FewMatches}

GeoInit ==
    /\ pc = "candidates"
    /\ candidates \in UNION {[1..n -> CandidateRows] : n \in 0..MaxRows}
    /\ onlymigrants = <<>>
    /\ migrants = <<>>
    /\ TextIdle
    /\ ClassIdle
    /\ StemIdle
    /\ PipeIdle
    /\ PlaceIdle
    /\ DecodeIdle

\* migrants = add_details(migrants)
AddDetails ==
    /\ pc = "candidates"
    /\ onlymigrants' = remove_nonmigrants(candidates)
    /\ migrants' = add_details(candidates)
    /\ pc' = "details"
    /\ UNCHANGED <<placeVars, decodeVars, candidates, textVars, classVars, stemVars, pipeVars>>

GeoNext == AddDetails

SpecGeo == GeoInit /\ [][GeoNext]_vars

----------------------------------------------------------------------------
(* The pipeline of main: add_metadata, find_migrants, add_details and
   quick_master over a few inscriptions and gazetteer entries *)

MaxInscriptions == 2
MaxEntries == 2

Aureliae_Emeritensi == <<"D", " ", "M", " ", "A", "u", "r", "e", "l", "i", "a", "e", " ", "E", "m", "e", "r", "i", "t", "e", "n", "s", "i", " ", "c", "o", "n", "i", "u", "g", "i">>
Marcus_castrensis == <<"M", "a", "r", "c", "u", "s", " ", "c", "a", "s", "t", "r", "e", "n", "s", "i", "s", " ", "E", "m", "e", "r", "i", "t", "e", "n", "s", "i", "s", " ", "v", "i", "x", "i", "t">>
Iulia_Emeritensis == <<"I", "u", "l", "i", "a", " ", "E", "m", "e", "r", "i", "t", "e", "n", "s", "i", "s", " ", "f", "i", "l", "i", "a">>

\* the text, keywords and find-spot of an inscription; the find-spot is the
\* one spot of haversine, or unknown
Inscriptions ==
    {[cleantext |-> Aureliae_Emeritensi, keywords |-> sepulcrales, find_lat |-> 0],
     [cleantext |-> Aureliae_Emeritensi, keywords |-> sepulcrales, find_lat |-> nan],
     [cleantext |-> Marcus_castrensis, keywords |-> viri, find_lat |-> 0],
     [cleantext |-> Iulia_Emeritensis, keywords |-> sepulcrales, find_lat |-> 0],
     [cleantext |-> Iulia_Emeritensis, keywords |-> viri, find_lat |-> nan]}

Emerita == <<"E", "m", "e", "r", "i", "t", "a">>
Castra_Emerita == Castr \o <<"a", " ">> \o Emerita
castra == <<"c", "a", "s", "t", "r", "a">>

\* the gazetteer entries: the stem column is what add_stem gives for the names
Entries ==
    {[title |-> Emerita, pid |-> 1, stem |-> add_stem(Emerita),
      reprLatLong |-> <<"C">>],
     [title |-> Castra_Emerita, pid |-> 2, stem |-> add_stem(Castra_Emerita),
      reprLatLong |-> <<"E">>],
     [title |-> castra, pid |-> 3, stem |-> add_stem(castra),
      reprLatLong |-> <<"C">>],
     [title |-> Emerita, pid |-> 4, stem |-> add_stem(Emerita),
      reprLatLong |-> NaN]}

\* the EDCS: the inscriptions are numbered in their order
PipeInit ==
    /\ pc = "edcs"
    /\ \E n \in 1..MaxInscriptions :
          \E t \in [1..n -> Inscriptions] :
             edcs = [k \in 1..n |-> WithColumns(t[k], [edcs_id |-> k])]
    /\ pleiades \in UNION {[1..n -> Entries] : n \in 1..MaxEntries}
    /\ raw_migrants = <<>>
    /\ master = <<>>
    /\ TextIdle
    /\ ClassIdle
    /\ StemIdle
    /\ GeoIdle
    /\ PlaceIdle
    /\ DecodeIdle

\* edcs = add_metadata(edcs)
AddMetadata ==
    /\ pc = "edcs"
    /\ edcs' = add_metadata(edcs, pir)
    /\ pc' = "metadata"
    /\ UNCHANGED <<placeVars, decodeVars, pleiades, raw_migrants, master, textVars, classVars, stemVars, geoVars>>

\* migrants = find_migrants(edcs, pleiades); without a single match the
\* dataframe has the columns of the EDCS only
FindMigrants ==
    /\ pc = "metadata"
    /\ raw_migrants' = find_migrants_raw(edcs, pleiades)
    /\ candidates' = find_migrants(edcs, pleiades)
    /\ pc' = IF raw_migrants' = <<>> THEN "nocolumns" ELSE "candidates"
    /\ UNCHANGED <<placeVars, decodeVars, edcs, pleiades, master, onlymigrants, migrants,
                   textVars, classVars, stemVars>>

\* add_details on a dataframe without a 'toponym' column: remove_nonmigrants
\* raises KeyError
AddDetailsRaises ==
    /\ pc = "nocolumns"
    /\ pc' = "raised"
    /\ UNCHANGED <<placeVars, decodeVars, textVars, classVars, stemVars, geoVars, pipeVars>>

\* master = quick_master(migrants, edcs)
QuickMaster ==
    /\ pc = "details"
    /\ master' = quick_master(migrants, edcs)
    /\ pc' = "master"
    /\ UNCHANGED <<placeVars, decodeVars, edcs, pleiades, raw_migrants, textVars, classVars, stemVars, geoVars>>

PipeNext == AddMetadata \/ FindMigrants \/ AddDetails \/ AddDetailsRaises \/ QuickMaster

SpecPipeline == PipeInit /\ [][PipeNext]_vars

----------------------------------------------------------------------------
(* TextNormalizer: properties *)

Normalized == pc \in {"clean", "reclean"}

OnlyOver(t, alphabet) == \A k \in 1..Len(t) : t[k] \in alphabet

ClaimAlphabet == Letters \cup Spaces \cup Digits \cup {"[", "]", "<", "=", ">", "{", "}"}

\* C1: get_cleantext is idempotent: for every raw text over letters,
\* whitespace, digits and the markers [ ] < = > { }, cleaning the cleaned
\* text again gives the cleaned text.
C1_Idempotent ==
    (pc = "reclean" /\ OnlyOver(raw, ClaimAlphabet)) => reclean = clean

\* position k (1-based) of t is the start of a well-formed correction span
\* '<' X '=' Y '>' with X and Y made of letters; SpanEnd is the position of '>'
SpanEquals(t, k) == Find(t, "=", k) + 1
SpanEnd(t, k) == Find(t, ">", k) + 1

IsSpanAt(t, k) ==
    /\ t[k] = "<"
    /\ SpanEquals(t, k) > k
    /\ SpanEnd(t, k) > SpanEquals(t, k)
    /\ \A j \in (k + 1)..(SpanEnd(t, k) - 1) :
          j /= SpanEquals(t, k) => t[j] \in Letters

\* t is letters, whitespace and well-formed correction spans only
RECURSIVE WellFormedFrom(_, _)
WellFormedFrom(t, k) ==
    IF k > Len(t) THEN TRUE
    ELSE IF t[k] \in Letters \cup Spaces THEN WellFormedFrom(t, k + 1)
    ELSE IF IsSpanAt(t, k) THEN WellFormedFrom(t, SpanEnd(t, k) + 1)
    ELSE FALSE

WellFormedCorrections(t) == WellFormedFrom(t, 1) /\ Contains(t, <<"<">>)

\* a well-formed text read left to right, each span replaced by the lower-cased
\* letters after the equals sign (afterEquals) or before it
RECURSIVE ReplaceSpans(_, _, _)
ReplaceSpans(t, k, afterEquals) ==
    IF k > Len(t) THEN <<>>
    ELSE IF t[k] = "<"
         THEN LowerAll(IF afterEquals
                       THEN SubSeq(t, SpanEquals(t, k) + 1, SpanEnd(t, k) - 1)
                       ELSE SubSeq(t, k + 1, SpanEquals(t, k) - 1))
              \o ReplaceSpans(t, SpanEnd(t, k) + 1, afterEquals)
         ELSE <<t[k]>> \o ReplaceSpans(t, k + 1, afterEquals)

TrimSpaces(t) == join(<<" ">>, split(t))

\* C2 as stated: in a text of letters, whitespace and well-formed correction
\* spans <X=Y>, each span is replaced in place by the lower-cased reading Y
\* after the equals sign, the rest of the text and the order being kept.
C2_SpanBecomesPartAfterEquals ==
    (Normalized /\ WellFormedCorrections(raw))
        => clean = TrimSpaces(ReplaceSpans(raw, 1, TRUE))

\* C2 amended: in a text of letters, whitespace and well-formed correction
\* spans <X=Y>, each span is replaced in place by the lower-cased letters X
\* before the equals sign; the text outside the spans is kept (whitespace
\* collapsed) and several corrections keep their order.
C2_SpanBecomesPartBeforeEquals ==
    (Normalized /\ WellFormedCorrections(raw))
        => clean = TrimSpaces(ReplaceSpans(raw, 1, FALSE))

\* two corrections with a letter between them have been normalised
C2_Witness ==
    /\ pc = "clean"
    /\ raw = <<"<", "A", "B", "=", "c", ">", "a", "<", "A", "B", "=", "c", ">">>
    /\ WellFormedCorrections(raw)
    /\ clean = <<"a", "b", "a", "a", "b">>

\* position k (1-based) of t lies in a complete marker '[' digit ']'
InMarker(t, k) ==
    \E m \in {k - 2, k - 1, k} :
        /\ m >= 1
        /\ m + 2 <= Len(t)
        /\ t[m] = "["
        /\ t[m + 1] \in Digits
        /\ t[m + 2] = "]"

\* C9: every lacuna marker [d] of the raw text appears verbatim in the
\* cleaned text, wherever it stands; stated for raw texts without correction
\* or superfluous-letter markup, so that nothing but the character filter acts.
C9_LacunaKept ==
    (Normalized /\ OnlyOver(raw, Letters \cup Spaces \cup Digits \cup {"[", "]"}))
        => \A d \in Digits :
              Contains(raw, <<"[", d, "]">>) => Contains(clean, <<"[", d, "]">>)

\* C10: every character of the cleaned text is whitespace, a letter, or part
\* of a complete three-character marker '[' digit ']'.
C10_OnlyLettersSpacesMarkers ==
    Normalized
        => \A k \in 1..Len(clean) :
              clean[k] \in Letters \cup Spaces \/ InMarker(clean, k)

\* t has an opening '<' or '{' with no closing bracket behind it
HasUnmatchedOpening(t) ==
    \E k \in 1..Len(t) :
        \/ t[k] = "<" /\ Find(t, ">", k) = -1
        \/ t[k] = "{" /\ Find(t, "}", k) = -1

RECURSIVE WithoutSpaces(_)
WithoutSpaces(t) ==
    IF t = <<>> THEN <<>>
    ELSE (IF isspace(Head(t)) THEN <<>> ELSE <<Head(t)>>) \o WithoutSpaces(Tail(t))

\* s can be read off t left to right, every position of t used at most once
RECURSIVE IsSubsequence(_, _)
IsSubsequence(s, t) ==
    IF s = <<>> THEN TRUE
    ELSE IF t = <<>> THEN FALSE
    ELSE IF Head(s) = Head(t) THEN IsSubsequence(Tail(s), Tail(t))
    ELSE IsSubsequence(s, Tail(t))

\* C11: for a raw text with an opening '<' or '{' that has no closing
\* bracket, get_cleantext truncates: the characters of the cleaned text are
\* characters of the raw text in their order (lower-cased in a correction),
\* no position of the raw text being emitted more than once.
C11_UnmatchedBracketEmitsNothingTwice ==
    (Normalized /\ HasUnmatchedOpening(raw))
        => IsSubsequence(LowerAll(WithoutSpaces(clean)), LowerAll(raw))

SpanContent == (Letters \cup Spaces \cup Digits \cup {"?", "[", "]"})

\* position k (1-based) of t opens a span '{' ... '}' without markup inside
CurlyEnd(t, k) == Find(t, "}", k) + 1

IsCurlyAt(t, k) ==
    /\ t[k] = "{"
    /\ CurlyEnd(t, k) > k
    /\ \A j \in (k + 1)..(CurlyEnd(t, k) - 1) : t[j] \in SpanContent

\* t is letters, whitespace and non-nested curly-brace spans only
RECURSIVE WellFormedCurlyFrom(_, _)
WellFormedCurlyFrom(t, k) ==
    IF k > Len(t) THEN TRUE
    ELSE IF t[k] \in Letters \cup Spaces THEN WellFormedCurlyFrom(t, k + 1)
    ELSE IF IsCurlyAt(t, k) THEN WellFormedCurlyFrom(t, CurlyEnd(t, k) + 1)
    ELSE FALSE

WellFormedCurly(t) == WellFormedCurlyFrom(t, 1) /\ Contains(t, <<"{">>)

\* a well-formed text read left to right without its curly-brace spans
RECURSIVE DeleteSpans(_, _)
DeleteSpans(t, k) ==
    IF k > Len(t) THEN <<>>
    ELSE IF t[k] = "{" THEN DeleteSpans(t, CurlyEnd(t, k) + 1)
    ELSE <<t[k]>> \o DeleteSpans(t, k + 1)

\* C12: in a text of letters, whitespace and any number of non-nested
\* curly-brace spans with their closing braces, get_cleantext deletes each
\* span with its braces and keeps the text on both sides (whitespace
\* collapsed): "a{xyz}b" gives "ab".
C12_CurlySpansDeleted ==
    (Normalized /\ WellFormedCurly(raw)) => clean = TrimSpaces(DeleteSpans(raw, 1))

\* two spans with a letter between them have been normalised
C12_Witness ==
    /\ pc = "clean"
    /\ raw = <<"{", "b", "}", "a", "{", "b", "}">>
    /\ WellFormedCurly(raw)
    /\ clean = <<"a">>

----------------------------------------------------------------------------
(* DemographicClassifier: properties *)

SignalNames ==
    {"gender_keywords", "gender_filix", "gender_servx", "gender_of_1st_Word"}

Says(r, g) == \E n \in SignalNames : r[n] = g

TextWords == split(row.cleantext)

HasForm(list) == \E k \in 1..Len(TextWords) : LowerAll(TextWords[k]) \in list

BothSlaveAndFreeborn ==
    pc = "status" /\ isinstance_str(row.cleantext) /\ HasForm(slave) /\ HasForm(free)

\* C4 as stated: a cleaned text with both a slave-form and a freeborn-form
\* word has legal status slave (0), whichever of the two words comes first.
C4_SlaveInEitherOrder == BothSlaveAndFreeborn => legal_status = 0

\* the first word of the text that is in one of the three lists
FirstStatusWord ==
    TextWords[Min({k \in 1..Len(TextWords) :
                      LowerAll(TextWords[k]) \in slave \cup freed \cup free})]

\* C4 amended: a cleaned text with both a slave-form and a freeborn-form word
\* has the legal status of its first status word in scan order: slave (0)
\* if that word is a slave form, freed (1) if it is a freed form, free (2)
\* if it is a freeborn form.
C4_FirstStatusWordDecides ==
    BothSlaveAndFreeborn
        => legal_status = (IF LowerAll(FirstStatusWord) \in slave THEN 0
                           ELSE IF LowerAll(FirstStatusWord) \in freed THEN 1
                           ELSE 2)

\* "filius servus" is classified free, "servus filius" would be slave
C4_Witness ==
    /\ pc = "status"
    /\ row.cleantext = fili \o <<"u", "s", " ">> \o serv \o <<"u", "s">>
    /\ BothSlaveAndFreeborn
    /\ legal_status = 2

----------------------------------------------------------------------------
(* GeoResolver: properties *)

\* the distance hs.haversine computes for a candidate, nan without origin
Computed(r) == IF isinstance_str(r.origo_LatLong) THEN haversine(r) ELSE nan

\* C5 as stated: after add_details no candidate whose computed distance is
\* at most 10 km is left in the migrant set.
C5_CloseCandidateRemoved ==
    pc = "details"
        => \A k \in 1..Len(migrants) :
              Computed(migrants[k]) = nan \/ Computed(migrants[k]) > 1000

\* C5 amended: after add_details no candidate of the migrant set carries a
\* distance of 10 km or less: a candidate whose computed distance is at most
\* 10 (exactly 10.0 included) has its distance left unset and may stay in the
\* set, and one at more than 10 (10.01) keeps its computed distance.
C5_CloseCandidateHasNoDistance ==
    pc = "details"
        => \A k \in 1..Len(migrants) :
              /\ migrants[k].distance = nan \/ migrants[k].distance > 1000
              /\ Computed(migrants[k]) \in 0..1000 => migrants[k].distance = nan
              /\ Computed(migrants[k]) > 1000
                    => migrants[k].distance = Computed(migrants[k])

\* a candidate at exactly 10.00 km is still in the set, without a distance,
\* beside one at 10.01 km that kept its distance
C5_Witness ==
    /\ pc = "details"
    /\ \E k \in 1..Len(migrants) :
          Computed(migrants[k]) = 1000 /\ migrants[k].distance = nan
    /\ \E k \in 1..Len(migrants) :
          Computed(migrants[k]) = 1001 /\ migrants[k].distance = 1001

\* the candidates remove_duplicates is given
Ranked == with_distance(remove_nonmigrants(candidates))

DistancesOf(rows, i) ==
    {rows[k].distance : k \in {j \in 1..Len(rows) : rows[j].edcs_id = i}} \ {nan}

\* C6: after remove_duplicates the migrant set holds at most one candidate
\* per inscription id, and for every inscription that had a candidate with a
\* distance the survivor is one of its candidates of minimum distance.
C6_OnePerInscriptionAtMinimumDistance ==
    pc = "details"
        => /\ \A j, k \in 1..Len(migrants) :
                 migrants[j].edcs_id = migrants[k].edcs_id => j = k
           /\ \A i \in Ids :
                 DistancesOf(Ranked, i) /= {}
                    => \E k \in 1..Len(migrants) :
                          /\ migrants[k].edcs_id = i
                          /\ migrants[k].distance = Min(DistancesOf(Ranked, i))
                          /\ \E j \in 1..Len(Ranked) : Ranked[j] = migrants[k]

\* of two candidates of inscription 1 at 50.20 and 12.70 km, in this order,
\* the one at 12.70 km is left
C6_Witness ==
    /\ pc = "details"
    /\ Len(candidates) >= 2
    /\ candidates[1].edcs_id = 1 /\ Computed(candidates[1]) = 5020
    /\ candidates[2].edcs_id = 1 /\ Computed(candidates[2]) = 1270
    /\ candidates[1].toponym = Emeritensi /\ candidates[2].toponym = Emeritensi
    /\ DistancesOf(Ranked, 1) = {1270, 5020}
    /\ DistancesOf(migrants, 1) = {1270}

\* the positions of the candidates of inscription i that remove_duplicates
\* is given with the minimum distance of that inscription
AtMinimum(i) ==
    {k \in 1..Len(Ranked) :
        /\ Ranked[k].edcs_id = i
        /\ Ranked[k].distance = Min(DistancesOf(Ranked, i))}

\* C13: among the candidates of one inscription that tie on the minimum
\* distance, remove_duplicates keeps the one that stands first in the
\* candidate set, which is the order the matcher's scan emitted them in.
C13_FirstSeenOfTiedCandidatesKept ==
    pc = "details"
        => \A i \in Ids :
              DistancesOf(Ranked, i) /= {}
                 => \E k \in 1..Len(migrants) :
                       migrants[k] = Ranked[Min(AtMinimum(i))]

\* inscription 1 has candidates at two origins that are both 12.70 km away,
\* the one at origin E emitted first: the one at origin E is left
C13_Witness ==
    /\ pc = "details"
    /\ Len(candidates) = 3
    /\ candidates[1].edcs_id = 1 /\ candidates[1].origo_LatLong = <<"D">>
    /\ candidates[2].edcs_id = 1 /\ candidates[2].origo_LatLong = <<"E">>
    /\ candidates[3].edcs_id = 1 /\ candidates[3].origo_LatLong = <<"C">>
    /\ \A k \in 1..3 : candidates[k].toponym = Emeritensi
    /\ Cardinality(AtMinimum(1)) = 2
    /\ Len(migrants) = 1
    /\ migrants[1].origo_LatLong = <<"E">>

\* the matched surface forms a candidate records: toponym is ",".join(matches)
FormsOf(r) == split_on(r.toponym, ",", 1, <<>>)

EntirelyLowercase(form) ==
    form /= <<>> /\ \A k \in 1..Len(form) : form[k] \in LowerCase

Capitalized(form) == form /= <<>> /\ form[1] \in UpperCase

\* the blocked family: 'Mense', 'Mensibus' and the like
MensFamily(form) == Len(form) > 4 /\ SubSeq(form, 1, 4) = <<"M", "e", "n", "s">>

\* C19: after remove_nonmigrants no remaining candidate has a matched form
\* that is entirely lowercase or of the blocked "Mens..." family, and every
\* candidate whose recorded forms are all capitalized and outside that
\* family is kept, in its place.
C19_FalsePositivesRemovedOthersKept ==
    pc = "details"
        => /\ \A k \in 1..Len(onlymigrants) :
                 \A n \in 1..Len(FormsOf(onlymigrants[k])) :
                    /\ ~EntirelyLowercase(FormsOf(onlymigrants[k])[n])
                    /\ ~MensFamily(FormsOf(onlymigrants[k])[n])
           /\ onlymigrants =
                 rows_at(candidates,
                         {k \in 1..Len(candidates) :
                             \A n \in 1..Len(FormsOf(candidates[k])) :
                                /\ Capitalized(FormsOf(candidates[k])[n])
                                /\ ~MensFamily(FormsOf(candidates[k])[n])}, 1)

\* of a lowercase match, a candidate with two capitalized forms and a
\* 'Mensibus' match, in this order, only the second is left
C19_Witness ==
    /\ pc = "details"
    /\ Len(candidates) = 3
    /\ candidates[1].toponym = castrensis
    /\ candidates[2].toponym = Emeritensi \o <<",">> \o Emeritensis
    /\ candidates[3].toponym = Mensibus
    /\ onlymigrants = <<candidates[2]>>

\* C20: remove_duplicates ranks a candidate without a distance below every
\* candidate of the same inscription that has one: the survivor of an
\* inscription with at least one candidate with a distance has a distance,
\* and a candidate without one survives only if every candidate of its
\* inscription lacks a distance.
C20_CandidateWithoutDistanceRankedLast ==
    pc = "details"
        => /\ \A i \in Ids :
                 DistancesOf(Ranked, i) /= {}
                    => \E k \in 1..Len(migrants) :
                          migrants[k].edcs_id = i /\ migrants[k].distance /= nan
           /\ \A k \in 1..Len(migrants) :
                 migrants[k].distance = nan
                    => \A j \in 1..Len(Ranked) :
                          Ranked[j].edcs_id = migrants[k].edcs_id
                             => Ranked[j].distance = nan

\* inscription 1 has a candidate without origin coordinates, one at 10.00 km
\* (distance unset) and then one at 50.20 km: the last one is left
C20_Witness ==
    /\ pc = "details"
    /\ Len(candidates) = 3
    /\ candidates[1].edcs_id = 1 /\ candidates[1].origo_LatLong = NaN
    /\ candidates[2].edcs_id = 1 /\ candidates[2].origo_LatLong = <<"A">>
    /\ candidates[3].edcs_id = 1 /\ candidates[3].origo_LatLong = <<"D">>
    /\ candidates[3].toponym = Emeritensi
    /\ Len(migrants) = 1
    /\ migrants[1].distance = 5020

----------------------------------------------------------------------------
(* The pipeline: properties *)

\* the row of the EDCS with the inscription id of r
InscriptionOf(r) == edcs[CHOOSE k \in 1..Len(edcs) : edcs[k].edcs_id = r.edcs_id]

\* the gazetteer entry a candidate was matched with
EntryOf(r) == CHOOSE e \in {pleiades[k] : k \in 1..Len(pleiades)} : e.pid = r.pid

HasCoordinates(x) == isinstance_str(x) /\ Len(x) >= 1

\* C14 as stated: the located flag of a candidate is set if and only if
\* both the find-spot of its inscription and the origin of its gazetteer
\* entry have coordinates.
C14_LocatedIffBothEndsHaveCoordinates ==
    \A k \in 1..Len(candidates) :
        candidates[k].located = 1
            <=> /\ InscriptionOf(candidates[k]).find_lat /= nan
                /\ HasCoordinates(EntryOf(candidates[k]).reprLatLong)

\* C14 amended: the located flag of a candidate is set if and only if the
\* origin coordinates of its gazetteer entry are present (a non-empty
\* string), whether or not the find-spot of the inscription has coordinates.
C14_LocatedIffOriginHasCoordinates ==
    \A k \in 1..Len(candidates) :
        candidates[k].located = 1
            <=> HasCoordinates(EntryOf(candidates[k]).reprLatLong)

\* a candidate of an inscription without find-spot coordinates is located,
\* and one matched with an entry without coordinates is not
C14_Witness ==
    /\ pc = "candidates"
    /\ \E k \in 1..Len(candidates) :
          /\ InscriptionOf(candidates[k]).find_lat = nan
          /\ HasCoordinates(EntryOf(candidates[k]).reprLatLong)
          /\ candidates[k].located = 1
    /\ \E k \in 1..Len(candidates) :
          /\ ~HasCoordinates(EntryOf(candidates[k]).reprLatLong)
          /\ candidates[k].located = 0

ClassifierFields == {"gender", "legal_status", "funerary"}

\* every row of a table carries the classifier's values of its inscription
Carries(table) ==
    \A k \in 1..Len(table) :
        /\ \E j \in 1..Len(edcs) : edcs[j].edcs_id = table[k].edcs_id
        /\ \A f \in ClassifierFields : table[k][f] = InscriptionOf(table[k])[f]

DownstreamCarries ==
    /\ Carries(raw_migrants)
    /\ Carries(candidates)
    /\ Carries(onlymigrants)
    /\ Carries(migrants)
    /\ Carries(master)

\* C15: once add_metadata has set gender, legal_status and funerary, no later
\* step changes the EDCS, and every row find_migrants produces, every row
\* add_details keeps and every row of quick_master carries exactly the
\* gender, legal_status and funerary of its inscription.
C15_ClassifierFieldsUntouchedDownstream ==
    [][(pc /= "edcs" => (edcs' = edcs /\ DownstreamCarries'))]_vars

\* the master table holds a matched inscription classified female and an
\* unmatched one that is not funerary
C15_Witness ==
    /\ pc = "master"
    /\ Len(master) = 2
    /\ master[1].toponym = Emeritensi /\ master[1].gender = "f"
    /\ master[1].legal_status = -1 /\ master[1].funerary = 1
    /\ master[2].toponym = NaN /\ master[2].funerary = 0
    /\ master[2].gender = "f" /\ master[2].legal_status = 2
    /\ DownstreamCarries

\* the positions of the scenario's inscription in the EDCS: funerary, with a
\* known find-spot
ScenarioInscriptions ==
    {k \in 1..Len(edcs) :
        /\ edcs[k].cleantext = Aureliae_Emeritensi
        /\ edcs[k].funerary = 1
        /\ edcs[k].find_lat /= nan}

\* the gazetteer is one entry with stem "Emerit" and coordinates more than
\* 10 km from the find-spot
ScenarioGazetteer ==
    /\ Len(pleiades) = 1
    /\ pleiades[1].stem = <<"E", "m", "e", "r", "i", "t">>
    /\ HasCoordinates(pleiades[1].reprLatLong)

\* C16: the funerary inscription "D M Aureliae Emeritensi coniugi" (the name
\* set holds "Aurelia", the find-spot is known) and one gazetteer entry with
\* the stem "Emerit" and coordinates more than 10 km away give exactly one
\* surviving candidate for the inscription, with the form "Emeritensi",
\* gender female, legal status unknown and a distance.
C16_EndToEndScenario ==
    (pc \in {"details", "master"} /\ ScenarioGazetteer)
        => \A i \in ScenarioInscriptions :
              LET found == {k \in 1..Len(migrants) : migrants[k].edcs_id = edcs[i].edcs_id}
              IN /\ Cardinality(found) = 1
                 /\ \A k \in found :
                       /\ migrants[k].toponym = Emeritensi
                       /\ migrants[k].gender = "f"
                       /\ migrants[k].legal_status = -1
                       /\ migrants[k].distance /= nan
                       /\ migrants[k].distance > Threshold

\* the scenario has run with the one inscription and the one entry
C16_Witness ==
    /\ pc = "details"
    /\ ScenarioGazetteer
    /\ Len(edcs) = 1
    /\ ScenarioInscriptions = {1}
    /\ <<"A", "u", "r", "e", "l", "i", "a">> \in name_set
    /\ edcs[1].name = <<"A", "u", "r", "e", "l", "i", "a">>
    /\ Len(migrants) = 1
    /\ migrants[1].toponym = Emeritensi
    /\ migrants[1].gender = "f"
    /\ migrants[1].distance = 1270

\* every recorded form of the candidate is capitalized and not blocked
GenuineForms(r) ==
    \A n \in 1..Len(FormsOf(r)) :
        Capitalized(FormsOf(r)[n]) /\ ~MensFamily(FormsOf(r)[n])

\* C17: whenever the raw candidate set holds, for an inscription and an
\* origin, a candidate whose forms are capitalized and not blocked, a
\* candidate of that inscription and origin is left after the filter and the
\* deduplication on (inscription, origin), also when an earlier candidate of
\* the same inscription and origin has a lowercase or blocked form.
C17_GenuineCandidateSurvivesEarlierFalsePositive ==
    pc \in {"details", "master"}
        => \A k \in 1..Len(raw_migrants) :
              GenuineForms(raw_migrants[k])
                 => \E j \in 1..Len(onlymigrants) :
                       /\ onlymigrants[j].edcs_id = raw_migrants[k].edcs_id
                       /\ onlymigrants[j].origo_LatLong = raw_migrants[k].origo_LatLong

PastMetadata == pc \notin {"edcs"}

\* C18: every candidate find_migrants emits, before and after its
\* drop_duplicates, belongs to an inscription whose funerary flag is 1; an
\* inscription whose flag is 0 has no candidate, whatever its text holds.
C18_OnlyFuneraryInscriptionsMatched ==
    PastMetadata
        => /\ \A k \in 1..Len(raw_migrants) : InscriptionOf(raw_migrants[k]).funerary = 1
           /\ \A k \in 1..Len(candidates) : InscriptionOf(candidates[k]).funerary = 1
           /\ \A j \in 1..Len(edcs) :
                 edcs[j].funerary = 0
                    => /\ \A k \in 1..Len(raw_migrants) :
                             raw_migrants[k].edcs_id /= edcs[j].edcs_id
                       /\ \A k \in 1..Len(candidates) :
                             candidates[k].edcs_id /= edcs[j].edcs_id

\* the first inscription holds "Emeritensis" but is not funerary and has no
\* candidate; the second is funerary and has one
C18_Witness ==
    /\ pc = "candidates"
    /\ Len(edcs) = 2
    /\ edcs[1].cleantext = Iulia_Emeritensis /\ edcs[1].funerary = 0
    /\ edcs[2].funerary = 1
    /\ Len(candidates) >= 1
    /\ \A k \in 1..Len(candidates) : candidates[k].edcs_id = 2

----------------------------------------------------------------------------
(* GazetteerStemmer: properties *)

Stemmed == pc \in {"stem", "stems", "raised"}

\* C7: every stem add_stem derives, the shorter stems of a vowel run
\* included, and every stem find_migrants uses after its blocklist
\* replacement, has at least 3 characters.
C7_StemsAtLeastThreeCharacters ==
    /\ pc \in {"stem", "stems"} => \A k \in 1..Len(stem_list) : Len(stem_list[k]) >= 3
    /\ pc = "stems" => \A k \in 1..Len(stems) : Len(stems[k]) >= 3

\* the number of vowels standing directly before position i (0-based) of w
VowelRun(w, i) ==
    Max({n \in 0..i : \A m \in 1..n : w[i - m + 1] \in vowels})

\* the stems C8 gives a word: the prefix up to its last vowel and one
\* shorter prefix for each vowel of the run before it
ExpectedStems(w) ==
    LET i == last_vowel(w)
    IN IF i <= 2 THEN <<>>
       ELSE [j \in 1..(VowelRun(w, i) + 1) |-> SubSeq(w, 1, i - j + 1)]

ExpectedStemList(names) ==
    LET words == split(names)
    IN Concat([k \in 1..Len(words) |-> ExpectedStems(words[k])])

\* C8: for every word of the place names, add_stem records the prefix up to
\* the last vowel (if that vowel is at index i > 2) and then one further
\* stem for each vowel of the run before it, and nothing for other words.
C8_StemsOfEveryWord ==
    (Stemmed /\ placenames /= NoneStr)
        => pc /= "raised" /\ stem_list = ExpectedStemList(placenames)

Blocked == {Castr, Misen, Fret}

\* C25: the blocklist of find_migrants removes from the stems of an entry
\* exactly the stems equal to a blocked fragment and leaves every other stem
\* as it is; no empty or shortened stem is searched for.
C25_BlocklistRemovesExactlyBlockedStems ==
    (pc = "stems" /\ stem_list /= <<>>)
        => stems = SelectSeq(stem_list, LAMBDA x : x \notin Blocked)

----------------------------------------------------------------------------
(* GazetteerStemmer: properties of get_place_names *)

\* get_place_names has made the placenames of a relevant row
Named == pc \in {"placenames", "stem", "stems", "raised"} /\ relevant(timePeriods)

Elements(seq) == {seq[k] : k \in 1..Len(seq)}

\* the name as no_brackets returns it
Unbracketed ==
    no_brackets(replace(replace(replace(elem, <<"?">>, <<>>), <<"[">>, <<>>),
                        <<"]">>, <<>>))

\* the variants of a name: its parts between commas, each split at slashes
Variants(e) ==
    UNION {Elements(split_on(loc, "/", 1, <<>>)) :
              loc \in Elements(split_on(e, ",", 1, <<>>))}

\* C21: get_place_names splits every eligible name on ',' and then on '/':
\* each comma-separated and each slash-separated variant is a place name of
\* its own, also for a name with a '/' and no ','.
C21_EverySeparatorSplits ==
    Named => place_names =
                {place_name(v) : v \in Variants(Unbracketed)} \ {Castr, Fret, Misen}

\* a parenthetical: "(" letters ")"
IsParenthetical(e, k, j) ==
    /\ e[k] = "("
    /\ e[j] = ")"
    /\ j > k + 1
    /\ \A m \in (k + 1)..(j - 1) : e[m] \in Letters

\* the characters of e outside its parentheticals
RECURSIVE Outside(_, _, _)
Outside(e, k, inside) ==
    IF k > Len(e) THEN <<>>
    ELSE IF e[k] = "(" THEN Outside(e, k + 1, TRUE)
    ELSE IF e[k] = ")" THEN Outside(e, k + 1, FALSE)
    ELSE (IF inside THEN <<>> ELSE <<e[k]>>) \o Outside(e, k + 1, inside)

\* the characters of e that are no parenthesis
Inside(e) == SelectSeq(e, LAMBDA c : c \notin {"(", ")"})

\* one word of letters with one or more spelling variants in parentheses
VariantWord(e) ==
    /\ OnlyOver(e, Letters \cup {"(", ")"})
    /\ \E k \in 1..Len(e) : e[k] = "("
    /\ \A k \in 1..Len(e) :
          /\ e[k] = "(" => \E j \in k..Len(e) : IsParenthetical(e, k, j)
          /\ e[k] = ")" => \E j \in 1..k : IsParenthetical(e, j, k)
    /\ Outside(e, 1, FALSE) /= <<>>

\* C24: for a word with parentheticals that are spelling variants, the form
\* with their content and the form without it both reach add_stem as words
\* of placenames, and no word of placenames holds a parenthesis, also for
\* several parentheticals in one word.
C24_BothReadingsWithoutParentheses ==
    (Named /\ VariantWord(elem))
        => /\ Inside(elem) \in Elements(split(placenames))
           /\ Outside(elem, 1, FALSE) \in Elements(split(placenames))
           /\ \A w \in Elements(split(placenames)) :
                 \A k \in 1..Len(w) : w[k] \notin {"(", ")"}

\* C28: no_tags returns for every name, and the name it returns holds no
\* '<'.
C28_NoTagsTerminates ==
    <>(pc /= "row" /\ (relevant(timePeriods) => Find(elem, "<", 0) = -1))

----------------------------------------------------------------------------
(* DemographicClassifier: properties of add_metadata *)

Classified == pc = "metadata"

HasText == isinstance_str(row.cleantext)

EndsWith(w, suffix) ==
    Len(w) >= Len(suffix) /\ SubSeq(w, Len(w) - Len(suffix) + 1, Len(w)) = suffix

\* a candidate token: longer than 2 characters, an upper-case then a
\* lower-case letter, ASCII only, not "Dis" or "Manibus"
Candidate(w) ==
    /\ Len(w) > 2
    /\ w[1] \in UpperCase
    /\ w[2] \in LowerCase
    /\ \A k \in 1..Len(w) : w[k] \notin Greek
    /\ w \notin {<<"D", "i", "s">>, <<"M", "a", "n", "i", "b", "u", "s">>}

\* the lemma of a candidate token: -ae gives -a, -i and -o give -us
Lemma(w) ==
    IF EndsWith(w, <<"a", "e">>) THEN SubSeq(w, 1, Len(w) - 1)
    ELSE IF EndsWith(w, <<"i">>) \/ EndsWith(w, <<"o">>)
         THEN SubSeq(w, 1, Len(w) - 1) \o <<"u", "s">>
         ELSE w

\* the lemmas of the candidate tokens found in the name authority set
AcceptedNames ==
    LET known == get_name_set(pir)
        accepted == SelectSeq(split(row.cleantext),
                              LAMBDA w : Candidate(w) /\ Lemma(w) \in known)
    IN [k \in 1..Len(accepted) |-> Lemma(accepted[k])]

\* C22: get_name accepts a token as a name if and only if it is a candidate
\* token and its lemma is in the name authority set; a token that fails a
\* candidate condition is never accepted, even when the set holds it.
C22_OnlyCandidateTokensAccepted ==
    (Classified /\ HasText) => row.name = join(<<",", " ">>, AcceptedNames)

\* the gender the suffix tables give a word: -1 for an ending of neither
TableGender(w) ==
    IF \/ w \in male_names
       \/ \E e \in {<<"u", "s">>, <<"o", "s">>, <<"i", "s">>, <<"e", "r">>,
                    <<"i">>, <<"o">>} : EndsWith(w, e)
    THEN 0
    ELSE IF EndsWith(w, <<"a", "e">>) \/ EndsWith(w, <<"a">>) THEN 1
    ELSE -1

\* the positions of the qualifying words of the cleaned text
Qualifying ==
    LET words == split(row.cleantext)
    IN {k \in 1..Len(words) : Candidate(words[k])}

\* C23: the first-capitalized-word signal is decided by the first
\* qualifying word of the cleaned text: with an ending of neither table
\* the signal is indeterminate, and later words do not influence it.
C23_FirstQualifyingWordDecides ==
    (Classified /\ HasText)
        => row.gender_of_1st_Word =
              IF Qualifying = {} THEN -1
              ELSE TableGender(split(row.cleantext)[Min(Qualifying)])

\* C23 as the code has it: the signal is decided by the first qualifying
\* word whose ending is in one of the tables; qualifying words before it
\* with an ending of neither table are passed over.
C23_FirstQualifyingWordWithKnownEndingDecides ==
    (Classified /\ HasText)
        => LET words == split(row.cleantext)
               known == {k \in Qualifying : TableGender(words[k]) /= -1}
           IN row.gender_of_1st_Word =
                 IF known = {} THEN -1 ELSE TableGender(words[Min(known)])

\* "Felix Iulia": the ending of Felix is in neither table, Iulia decides
C23_Witness ==
    /\ Classified
    /\ row.cleantext = <<"F", "e", "l", "i", "x", " ", "I", "u", "l", "i", "a">>
    /\ row.gender_of_1st_Word = 1

\* the keywords name a gender
GenderedKeywords ==
    /\ isinstance_str(row.keywords)
    /\ \/ Contains(row.keywords, <<"v", "i", "r">>)
       \/ Contains(row.keywords, <<"m", "u", "l", "i", "e", "r">>)

\* C26: for a record whose cleaned text is missing, every gender signal, the
\* legal status and the name extraction yield the unknown value: -1 for a
\* signal and the status, the empty string for the name.
C26_MissingTextYieldsUnknown ==
    (Classified /\ ~HasText)
        => /\ row.name = <<>>
           /\ row.gender_main_pers = -1
           /\ ~GenderedKeywords => row.gender_keywords = -1
           /\ row.gender_filix = -1
           /\ row.gender_servx = -1
           /\ row.gender_of_1st_Word = -1
           /\ row.gender_ensis = -1
           /\ row.legal_status = -1

\* C30: after add_status the legal status and the three flags agree: the
\* status is slave, freed or free only if the flag of that status is 1, and
\* unknown only if the three flags are 0.
C30_StatusAndFlagsAgree ==
    Classified
        => /\ row.legal_status = 0 => row.slave = 1
           /\ row.legal_status = 1 => row.freed = 1
           /\ row.legal_status = 2 => row.freeborn = 1
           /\ row.legal_status = -1
                 => row.slave = 0 /\ row.freed = 0 /\ row.freeborn = 0

----------------------------------------------------------------------------
(* The pipeline: properties of quick_master *)

\* the rows of master with the id of row k of the EDCS
MasterRowsOf(k) == {j \in 1..Len(master) : master[j].edcs_id = edcs[k].edcs_id}

\* C29: the master set built by quick_master from the enriched inscriptions
\* and the output of add_details holds every inscription id of the enriched
\* set exactly once: no inscription is dropped and none is duplicated.
C29_EveryInscriptionOnceInMaster ==
    pc = "master"
        => /\ \A k \in 1..Len(edcs) : Cardinality(MasterRowsOf(k)) = 1
           /\ Len(master) = Len(edcs)

\* two inscriptions: the first had two candidates left by remove_nonmigrants
\* and is in master with the one remove_duplicates kept, the second had none
\* and is in master without an origin
C29_Witness ==
    /\ pc = "master"
    /\ Len(edcs) = 2
    /\ Cardinality({k \in 1..Len(onlymigrants) : onlymigrants[k].edcs_id = 1}) >= 2
    /\ \E j \in 1..Len(master) :
          master[j].edcs_id = 1 /\ master[j].toponym /= NaN
    /\ \A k \in 1..Len(candidates) : candidates[k].edcs_id /= 2
    /\ \E j \in 1..Len(master) :
          master[j].edcs_id = 2 /\ master[j].toponym = NaN

----------------------------------------------------------------------------
(* InscriptionDecoder: properties of get_insc_dict *)

\* the list has none of the labels get_insc_dict reads the text at
TextAbsent ==
    \A k \in 1..Len(scraped) : scraped[k] \notin {Ort, Personenstatus, Material}

\* C27: a record decoded by get_insc_dict from a list without the raw text
\* has an unknown cleaned text (the placeholder itself, NaN or nothing),
\* never a word computed from the placeholder, and the text length
\* add_metadata gives it is not a positive number.
C27_AbsentTextHasUnknownCleantext ==
    TextAbsent
        => /\ pc \in {"decoded", "edcs_row", "metadata"}
                 => inscription.cleantext \in {n_a, NaN, <<>>}
           /\ pc = "metadata" => ~(row.text_length > 0)

====
